---- MODULE Spec2Model ----
(***************************************************************************)
(* Sender Rewriting Scheme engine (package srs): Forward wraps a sender    *)
(* address into an SRS0/SRS1 envelope at the relay's domain, Reverse       *)
(* strips one layer after checking the tag and the time stamp.             *)
(*                                                                         *)
(* A Go string is a sequence of one-character strings.  crypto/hmac is a   *)
(* deterministic keyed function whose values are unknown: it is an oracle  *)
(* that answers a fresh (key, message) with any digest and a repeated one  *)
(* with the digest it gave before.  net/mail's ParseAddress is modelled    *)
(* on the bare addr-spec form  dot-atom "@" dot-atom.                      *)
(***************************************************************************)
EXTENDS Integers, Sequences, FiniteSets, TLC

VARIABLES
    srs,      \* relay -> the SRS struct of that relay (its fields and once)
    clock,    \* Unix seconds that the time source returns now
    hmac,     \* the HMAC-SHA1 oracle: <<key, message>> -> base64 digest
    hist,     \* the calls made so far, oldest first
    cur,      \* the address in flight: the next call's input
    run       \* the goroutines inside Forward/Reverse of relay r1, and the
              \* mutex and the bookkeeping of its sync.Once; or the position
              \* and the local variables of one goroutine inside checkTimestamp

vars == <<srs, clock, hmac, hist, cur, run>>

----------------------------------------------------------------------------
(* Constants of the package.                                               *)

hashLength == 4
sep == "="
timePrecision == 86400
timeSlots == 1024
maxAge == 21
baseSize == 32
base32 ==
    << "A","B","C","D","E","F","G","H","I","J","K","L","M","N","O","P",
       "Q","R","S","T","U","V","W","X","Y","Z","2","3","4","5","6","7" >>

ErrNoUserInSRS0 == "no user in SRS0 address"
ErrNoUserInSRS1 == "no user in SRS1 address"
ErrHashInvalid == "hash invalid in SRS address"
ErrHashTooShort == "hash too short in SRS address"
ErrTimestampWrongSlot == "timestamp out of date"
ErrTimestampInvalidBase32 == "bad base32 character in timestamp"
ErrNoSRS == "not an SRS address"
ErrNoAtSign == "no at sign in sender address"
ErrMailParse == "mail: parse error"
NoErr == "nil"

----------------------------------------------------------------------------
(* The strings package on sequences of characters.                         *)

UpperLetters ==
    << "A","B","C","D","E","F","G","H","I","J","K","L","M",
       "N","O","P","Q","R","S","T","U","V","W","X","Y","Z" >>
LowerLetters ==
    << "a","b","c","d","e","f","g","h","i","j","k","l","m",
       "n","o","p","q","r","s","t","u","v","w","x","y","z" >>

IndexIn(alphabet, c) ==
    IF \E i \in 1..Len(alphabet) : alphabet[i] = c
    THEN CHOOSE i \in 1..Len(alphabet) : alphabet[i] = c
    ELSE 0

ToUpperRune(c) ==
    LET i == IndexIn(LowerLetters, c) IN IF i = 0 THEN c ELSE UpperLetters[i]
ToLowerRune(c) ==
    LET i == IndexIn(UpperLetters, c) IN IF i = 0 THEN c ELSE LowerLetters[i]

\* comparison that tells upper case from lower case
EqualExact(s, t) == s = t

ToUpper(s) == [i \in 1..Len(s) |-> ToUpperRune(s[i])]
ToLower(s) == [i \in 1..Len(s) |-> ToLowerRune(s[i])]
EqualFold(s, t) == ToLower(s) = ToLower(t)

\* s[from:] of Go, from counted from 0
From(s, from) == SubSeq(s, from + 1, Len(s))
\* s[:to] of Go
UpTo(s, to) == SubSeq(s, 1, to)

HasSuffix(s, c) == Len(s) > 0 /\ s[Len(s)] = c
HasPrefix(s, p) == Len(s) >= Len(p) /\ SubSeq(s, 1, Len(p)) = p
ContainsRune(s, c) == \E i \in 1..Len(s) : s[i] = c

\* position (from 1) of the first c in s, 0 when there is none
IndexRune(s, c) ==
    IF ContainsRune(s, c)
    THEN CHOOSE i \in 1..Len(s) : s[i] = c /\ \A j \in 1..(i - 1) : s[j] # c
    ELSE 0

\* strings.SplitN(s, c, n) for n > 0: at most n pieces, the last one unsplit
RECURSIVE SplitN(_, _, _)
SplitN(s, c, n) ==
    LET i == IndexRune(s, c) IN
    IF n <= 1 \/ i = 0 THEN << s >>
    ELSE << SubSeq(s, 1, i - 1) >> \o SplitN(SubSeq(s, i + 1, Len(s)), c, n - 1)

----------------------------------------------------------------------------
(* parseEmail and the address parser it calls.                             *)

\* RFC 5322 specials and the space end an atom; every other character is atext
NotAtext == { "@", " ", ",", "<", ">", "(", ")", "[", "]", ":", ";", "\"", "\\" }

DotAtom(s) ==
    /\ Len(s) > 0
    /\ \A i \in 1..Len(s) : s[i] \notin NotAtext
    /\ s[1] # "." /\ s[Len(s)] # "."
    /\ \A i \in 1..(Len(s) - 1) : ~(s[i] = "." /\ s[i + 1] = ".")

\* mail.ParseAddress on a bare addr-spec: the address it returns, or failure
ParseAddressOk(e) ==
    LET at == IndexRune(e, "@") IN
    /\ at > 0
    /\ DotAtom(SubSeq(e, 1, at - 1))
    /\ DotAtom(SubSeq(e, at + 1, Len(e)))

parseEmail(e) ==
    IF ~ContainsRune(e, "@")
    THEN [user |-> << >>, domain |-> << >>, err |-> ErrNoAtSign]
    ELSE IF ~ParseAddressOk(e)
    THEN [user |-> << >>, domain |-> << >>, err |-> ErrMailParse]
    ELSE LET parts == SplitN(e, "@", 2) IN
         IF Len(parts) # 2
         THEN [user |-> << >>, domain |-> << >>, err |-> ErrNoAtSign]
         ELSE [user |-> parts[1], domain |-> parts[2], err |-> NoErr]

----------------------------------------------------------------------------
(* Time slots.                                                             *)

\* int(math.Mod(float64(unix)/timePrecision, timeSlots)): Mod keeps the sign
\* of the dividend and int() truncates toward zero
timestamp(now) ==
    IF now >= 0
    THEN (now \div timePrecision) % timeSlots
    ELSE 0 - (((0 - now) \div timePrecision) % timeSlots)

RECURSIVE base32Encode(_)
base32Encode(x) ==
    IF x > 0
    THEN base32Encode(x \div baseSize) \o << base32[(x % baseSize) + 1] >>
    ELSE << >>

\* the decode loop that takes the last character as the most significant
RECURSIVE decodeFromReversed(_, _)
decodeFromReversed(then, ts) ==
    IF ts = << >> THEN then
    ELSE decodeFromReversed(
             then * 32 + (IndexIn(base32, ToUpperRune(ts[Len(ts)])) - 1),
             SubSeq(ts, 1, Len(ts) - 1))

\* the decode loop of checkTimestamp on a string of base32 characters:
\* then = then<<5 | pos
RECURSIVE decodeFrom(_, _)
decodeFrom(then, ts) ==
    IF ts = << >> THEN then
    ELSE decodeFrom(then * 32 + (IndexIn(base32, ToUpperRune(Head(ts))) - 1), Tail(ts))

BadBase32(ts) == \E i \in 1..Len(ts) : IndexIn(base32, ToUpperRune(ts[i])) = 0

\* "for now < then { now += timeSlots }": how often the loop body runs
RECURSIVE cycleLaps(_, _)
cycleLaps(now, then) ==
    IF now < then THEN 1 + cycleLaps(now + timeSlots, then) ELSE 0

\* a freshness check without the loop
cycleUpNone(now, then) == now

\* "for now < then { now += timeSlots }": the value the loop ends with
cycleUp(now, then) ==
    IF now >= then THEN now
    ELSE now + timeSlots * (((then - now) + (timeSlots - 1)) \div timeSlots)

\* checkTimestamp that looks the characters up as they are, without ToUpper
checkTimestampNoUpper(nowUnix, ts) ==
    IF \E i \in 1..Len(ts) : IndexIn(base32, ts[i]) = 0
    THEN ErrTimestampInvalidBase32
    ELSE LET then == decodeFrom(0, ts)
             now == cycleUp(timestamp(nowUnix), then)
         IN IF now <= then + maxAge THEN NoErr ELSE ErrTimestampWrongSlot

\* checkTimestamp that turns away a time stamp of exactly maxAge days
checkTimestampStrict(nowUnix, ts) ==
    IF BadBase32(ts) THEN ErrTimestampInvalidBase32
    ELSE LET then == decodeFrom(0, ts)
             now == cycleUp(timestamp(nowUnix), then)
         IN IF now < then + maxAge THEN NoErr ELSE ErrTimestampWrongSlot

checkTimestamp(nowUnix, ts) ==
    IF BadBase32(ts) THEN ErrTimestampInvalidBase32
    ELSE LET then == decodeFrom(0, ts)
             now == cycleUp(timestamp(nowUnix), then)
         IN IF now <= then + maxAge THEN NoErr ELSE ErrTimestampWrongSlot

----------------------------------------------------------------------------
(* The engine.                                                             *)

SRS0 == << "S","R","S","0" >>
SRS1 == << "S","R","S","1" >>
Separators == { "=", "+", "-" }
\* prefix test that does not look at the character behind SRS0
IsSRS0AnyFifth(local) == Len(local) >= 5 /\ ToUpper(UpTo(local, 4)) = SRS0

IsSRS0(local) ==
    Len(local) >= 5 /\ ToUpper(UpTo(local, 4)) = SRS0 /\ local[5] \in Separators
IsSRS1(local) ==
    Len(local) >= 5 /\ ToUpper(UpTo(local, 4)) = SRS1 /\ local[5] \in Separators

\* base64 digests HMAC-SHA1 may return (the first characters of them)
Digests ==
    { << "a","B","c","d","E" >>,
      << "A","b","C","D","z" >>,
      << "+","B","c","d","x" >> }

\* hmac.New(sha1.New, key); Write(msg); base64 of Sum: the digest, and the
\* oracle that has answered it
HmacSha1Base64(h, key, msg) ==
    IF << key, msg >> \in DOMAIN h
    THEN { << h[<< key, msg >>], h >> }
    ELSE { << d, (<< key, msg >> :> d) @@ h >> : d \in Digests }

\* hash that keys the HMAC with nothing
hashKeyless(s, h, input) ==
    { [s |-> UpTo(p[1], hashLength), h |-> p[2]] :
        p \in HmacSha1Base64(h, "", input) }

hash(s, h, input) ==
    { [s |-> UpTo(p[1], hashLength), h |-> p[2]] :
        p \in HmacSha1Base64(h, s.Secret, input) }

\* setDefaults that only fills in a first separator that was left empty
setDefaultsEmptyOnly(s) ==
    [s EXCEPT
       !.FirstSeparator = IF @ = << >> THEN << "=" >> ELSE @,
       !.NowFunc = IF @ = "nil" THEN "time.Now" ELSE @]

setDefaults(s) ==
    [s EXCEPT
       !.FirstSeparator =
           IF @ \in { << "=" >>, << "+" >>, << "-" >> } THEN @ ELSE << "=" >>,
       !.NowFunc = IF @ = "nil" THEN "time.Now" ELSE @]

\* sync.Once that never finds its work done
onceDoneNever(s) == FALSE

\* o.done.Load() != 0 of srs.once
onceDone(s) == s.once

\* srs.once.Do(srs.setDefaults), with no other caller in it
onceDo(s) == IF s.once THEN s ELSE [setDefaults(s) EXCEPT !.once = TRUE]

Ret(out, err, h) == [out |-> out, err |-> err, h |-> h]

\* rewrite that signs the fields as given, without lower-casing them
rewriteCaseKept(s, h, now, local, hostname) ==
    LET ts == base32Encode(timestamp(now)) IN
    { Ret(SRS0 \o s.FirstSeparator \o t.s \o << sep >> \o ts \o << sep >>
            \o hostname \o << sep >> \o local \o << "@" >> \o s.Domain,
          NoErr, t.h) :
        t \in hash(s, h, ts \o hostname \o local) }

rewrite(s, h, now, local, hostname) ==
    LET ts == base32Encode(timestamp(now)) IN
    { Ret(SRS0 \o s.FirstSeparator \o t.s \o << sep >> \o ts \o << sep >>
            \o hostname \o << sep >> \o local \o << "@" >> \o s.Domain,
          NoErr, t.h) :
        t \in hash(s, h, ToLower(ts \o hostname \o local)) }

\* rewriteSRS0 that asks the foreign envelope for its four fields
rewriteSRS0Parsed(s, h, local, hostname) ==
    IF Len(SplitN(From(local, 5), sep, 4)) < 4
    THEN { Ret(<< >>, ErrNoUserInSRS0, h) }
    ELSE { Ret(SRS1 \o s.FirstSeparator \o t.s \o << sep >> \o hostname \o << sep >>
                 \o From(local, 4) \o << "@" >> \o s.Domain,
               NoErr, t.h) :
             t \in hash(s, h, ToLower(hostname \o From(local, 4))) }

rewriteSRS0(s, h, local, hostname) ==
    { Ret(SRS1 \o s.FirstSeparator \o t.s \o << sep >> \o hostname \o << sep >>
            \o << local[5] >> \o From(local, 5) \o << "@" >> \o s.Domain,
          NoErr, t.h) :
        t \in hash(s, h, ToLower(hostname \o From(local, 4))) }

\* rewriteSRS1 that signs and names the host the address came from
rewriteSRS1PrevHost(s, h, local, hostname) ==
    LET parts == SplitN(From(local, 5), sep, 3) IN
    IF Len(parts) # 3 THEN { Ret(<< >>, ErrNoSRS, h) }
    ELSE { Ret(SRS1 \o s.FirstSeparator \o t.s \o << sep >> \o hostname
                 \o << sep >> \o parts[3] \o << "@" >> \o s.Domain,
               NoErr, t.h) :
             t \in hash(s, h, ToLower(hostname \o parts[3])) }

\* rewriteSRS1 that signs the previous tag along with host and opaque part
rewriteSRS1OldTag(s, h, local, hostname) ==
    LET parts == SplitN(From(local, 5), sep, 3) IN
    IF Len(parts) # 3 THEN { Ret(<< >>, ErrNoSRS, h) }
    ELSE { Ret(SRS1 \o s.FirstSeparator \o t.s \o << sep >> \o parts[2]
                 \o << sep >> \o parts[3] \o << "@" >> \o s.Domain,
               NoErr, t.h) :
             t \in hash(s, h, ToLower(parts[1] \o parts[2] \o parts[3])) }

\* rewriteSRS1 that wraps the whole envelope again, as rewriteSRS0 does
rewriteSRS1Nested(s, h, local, hostname) ==
    { Ret(SRS1 \o s.FirstSeparator \o t.s \o << sep >> \o hostname
            \o << sep >> \o From(local, 4) \o << "@" >> \o s.Domain,
          NoErr, t.h) :
        t \in hash(s, h, ToLower(hostname \o From(local, 4))) }

rewriteSRS1(s, h, local, hostname) ==
    LET parts == SplitN(From(local, 5), sep, 3) IN
    IF Len(parts) # 3 THEN { Ret(<< >>, ErrNoSRS, h) }
    ELSE LET srsHost == parts[2]
             srsLocal == parts[3]
         IN { Ret(SRS1 \o s.FirstSeparator \o t.s \o << sep >> \o srsHost
                    \o << sep >> \o srsLocal \o << "@" >> \o s.Domain,
                  NoErr, t.h) :
                t \in hash(s, h, ToLower(srsHost \o srsLocal)) }

\* Forward without the test for the relay's own domain
localDomainUnchecked(s, hostname) == FALSE

\* "if hostname == srs.Domain": the address is already at this relay
localDomain(s, hostname) == hostname = s.Domain

\* Forward that hands back its input when the splitter fails
ForwardErrDropped(s, h, now, email) ==
    LET noDomain == HasSuffix(email, "@")
        email2 == IF noDomain THEN email \o s.Domain ELSE email
        p == parseEmail(email2)
        local == p.user
        hostname == IF noDomain THEN << >> ELSE p.domain
    IN
    IF p.err # NoErr THEN { Ret(email, NoErr, h) }
    ELSE IF localDomain(s, hostname) THEN { Ret(email2, NoErr, h) }
    ELSE IF Len(local) < 5 THEN rewrite(s, h, now, local, hostname)
    ELSE IF IsSRS0(local) THEN rewriteSRS0(s, h, local, hostname)
    ELSE IF IsSRS1(local) THEN rewriteSRS1(s, h, local, hostname)
    ELSE rewrite(s, h, now, local, hostname)

\* Forward that keeps the host it parsed for an address ending in '@'
ForwardNoDomainKept(s, h, now, email) ==
    LET noDomain == HasSuffix(email, "@")
        email2 == IF noDomain THEN email \o s.Domain ELSE email
        p == parseEmail(email2)
        local == p.user
        hostname == p.domain
    IN
    IF p.err # NoErr THEN { Ret(<< >>, p.err, h) }
    ELSE IF localDomain(s, hostname) THEN { Ret(email2, NoErr, h) }
    ELSE IF Len(local) < 5 THEN rewrite(s, h, now, local, hostname)
    ELSE IF IsSRS0(local) THEN rewriteSRS0(s, h, local, hostname)
    ELSE IF IsSRS1(local) THEN rewriteSRS1(s, h, local, hostname)
    ELSE rewrite(s, h, now, local, hostname)

Forward(s, h, now, email) ==
    LET noDomain == HasSuffix(email, "@")
        email2 == IF noDomain THEN email \o s.Domain ELSE email
        p == parseEmail(email2)
        local == p.user
        hostname == IF noDomain THEN << >> ELSE p.domain
    IN
    IF p.err # NoErr THEN { Ret(<< >>, p.err, h) }
    ELSE IF localDomain(s, hostname) THEN { Ret(email2, NoErr, h) }
    ELSE IF Len(local) < 5 THEN rewrite(s, h, now, local, hostname)
    ELSE IF IsSRS0(local) THEN rewriteSRS0(s, h, local, hostname)
    ELSE IF IsSRS1(local) THEN rewriteSRS1(s, h, local, hostname)
    ELSE rewrite(s, h, now, local, hostname)

parseSRS0(local) ==
    LET parts == SplitN(From(local, 5), sep, 4) IN
    IF Len(parts) < 4
    THEN [err |-> ErrNoUserInSRS0, srsHash |-> << >>, srsTimestamp |-> << >>,
          srsHost |-> << >>, srsUser |-> << >>]
    ELSE [err |-> NoErr, srsHash |-> parts[1], srsTimestamp |-> parts[2],
          srsHost |-> parts[3], srsUser |-> parts[4]]

\* DoubleSepAt that keeps the last token it meets instead of the first
DoubleSepAtLast(local) ==
    LET hit(i) == local[i] = "=" /\ local[i + 1] \in Separators
        I == { i \in 1..(Len(local) - 1) : hit(i) }
    IN IF I = { } THEN -1
       ELSE (CHOOSE i \in I : \A j \in I : i >= j) - 1

\* the index (from 0) of the first "==", "=+" or "=-" of local, -1 for none
DoubleSepAt(local) ==
    LET hit(i) == local[i] = "=" /\ local[i + 1] \in Separators
        I == { i \in 1..(Len(local) - 1) : hit(i) }
    IN IF I = { } THEN -1
       ELSE (CHOOSE i \in I : \A j \in I : i <= j) - 1

\* parseSRS1 whose floor is len(srs1First) <= 3
parseSRS1LowFloor(local) ==
    LET i == DoubleSepAt(local)
        srs1Sep == IF i = -1 THEN << >> ELSE << local[i + 2] >>
        srs1First == IF i = -1 THEN << >> ELSE UpTo(local, i)
        srs1Second == IF i = -1 THEN << >> ELSE From(local, i + 2)
        fail(e) == [err |-> e, srsLocal |-> << >>, srs1Hash |-> << >>,
                    srs1Host |-> << >>]
    IN
    IF srs1First = << >> /\ srs1Second = << >> THEN fail(ErrNoUserInSRS1)
    ELSE IF Len(srs1First) <= 3 THEN fail(ErrHashTooShort)
    ELSE LET hh == SplitN(From(srs1First, 5), sep, 2) IN
         [err |-> NoErr, srsLocal |-> srs1Sep \o srs1Second,
          srs1Hash |-> IF Len(hh) = 2 THEN hh[1] ELSE << >>,
          srs1Host |-> IF Len(hh) = 2 THEN hh[2] ELSE << >>]

parseSRS1(local) ==
    LET i == DoubleSepAt(local)
        srs1Sep == IF i = -1 THEN << >> ELSE << local[i + 2] >>
        srs1First == IF i = -1 THEN << >> ELSE UpTo(local, i)
        srs1Second == IF i = -1 THEN << >> ELSE From(local, i + 2)
        fail(e) == [err |-> e, srsLocal |-> << >>, srs1Hash |-> << >>,
                    srs1Host |-> << >>]
    IN
    IF srs1First = << >> /\ srs1Second = << >> THEN fail(ErrNoUserInSRS1)
    ELSE IF Len(srs1First) <= 8 THEN fail(ErrHashTooShort)
    ELSE LET hh == SplitN(From(srs1First, 5), sep, 2) IN
         [err |-> NoErr, srsLocal |-> srs1Sep \o srs1Second,
          srs1Hash |-> IF Len(hh) = 2 THEN hh[1] ELSE << >>,
          srs1Host |-> IF Len(hh) = 2 THEN hh[2] ELSE << >>]

\* Reverse that compares the tag before it looks at the time stamp
ReverseTagFirst(s, h, now, email) ==
    LET p == parseEmail(email)
        local == p.user
    IN
    IF p.err # NoErr THEN { Ret(<< >>, ErrNoSRS, h) }
    ELSE IF Len(local) < 5 THEN { Ret(<< >>, ErrNoSRS, h) }
    ELSE IF IsSRS0(local) THEN
        LET f == parseSRS0(local)
            tsErr == checkTimestamp(now, f.srsTimestamp)
        IN
        IF f.err # NoErr THEN { Ret(<< >>, f.err, h) }
        ELSE { IF ~EqualFold(f.srsHash, t.s)
               THEN Ret(<< >>, ErrHashInvalid, t.h)
               ELSE IF tsErr # NoErr THEN Ret(<< >>, tsErr, t.h)
               ELSE Ret(f.srsUser \o << "@" >> \o f.srsHost, NoErr, t.h) :
                 t \in hash(s, h, ToLower(f.srsTimestamp \o f.srsHost \o f.srsUser)) }
    ELSE IF IsSRS1(local) THEN
        LET g == parseSRS1(local) IN
        IF g.err # NoErr THEN { Ret(<< >>, g.err, h) }
        ELSE { IF ~EqualFold(g.srs1Hash, t.s)
               THEN Ret(<< >>, ErrHashInvalid, t.h)
               ELSE Ret(SRS0 \o g.srsLocal \o << "@" >> \o g.srs1Host, NoErr, t.h) :
                 t \in hash(s, h, ToLower(g.srs1Host \o g.srsLocal)) }
    ELSE { Ret(<< >>, ErrNoSRS, h) }

\* Reverse that also checks the time stamp inside a second-form envelope
ReverseInnerChecked(s, h, now, email) ==
    LET p == parseEmail(email)
        local == p.user
    IN
    IF p.err # NoErr THEN { Ret(<< >>, ErrNoSRS, h) }
    ELSE IF Len(local) < 5 THEN { Ret(<< >>, ErrNoSRS, h) }
    ELSE IF IsSRS0(local) THEN
        LET f == parseSRS0(local)
            tsErr == checkTimestamp(now, f.srsTimestamp)
        IN
        IF f.err # NoErr THEN { Ret(<< >>, f.err, h) }
        ELSE IF tsErr # NoErr THEN { Ret(<< >>, tsErr, h) }
        ELSE { IF ~EqualFold(f.srsHash, t.s)
               THEN Ret(<< >>, ErrHashInvalid, t.h)
               ELSE Ret(f.srsUser \o << "@" >> \o f.srsHost, NoErr, t.h) :
                 t \in hash(s, h, ToLower(f.srsTimestamp \o f.srsHost \o f.srsUser)) }
    ELSE IF IsSRS1(local) THEN
        LET g == parseSRS1(local)
            in0 == SplitN(From(g.srsLocal, 1), sep, 4)
            tsErr1 == IF Len(in0) < 2 THEN ErrNoUserInSRS0
                      ELSE checkTimestamp(now, in0[2])
        IN
        IF g.err # NoErr THEN { Ret(<< >>, g.err, h) }
        ELSE IF tsErr1 # NoErr THEN { Ret(<< >>, tsErr1, h) }
        ELSE { IF ~EqualFold(g.srs1Hash, t.s)
               THEN Ret(<< >>, ErrHashInvalid, t.h)
               ELSE Ret(SRS0 \o g.srsLocal \o << "@" >> \o g.srs1Host, NoErr, t.h) :
                 t \in hash(s, h, ToLower(g.srs1Host \o g.srsLocal)) }
    ELSE { Ret(<< >>, ErrNoSRS, h) }

Reverse(s, h, now, email) ==
    LET p == parseEmail(email)
        local == p.user
    IN
    IF p.err # NoErr THEN { Ret(<< >>, ErrNoSRS, h) }
    ELSE IF Len(local) < 5 THEN { Ret(<< >>, ErrNoSRS, h) }
    ELSE IF IsSRS0(local) THEN
        LET f == parseSRS0(local)
            tsErr == checkTimestamp(now, f.srsTimestamp)
        IN
        IF f.err # NoErr THEN { Ret(<< >>, f.err, h) }
        ELSE IF tsErr # NoErr THEN { Ret(<< >>, tsErr, h) }
        ELSE { IF ~EqualFold(f.srsHash, t.s)
               THEN Ret(<< >>, ErrHashInvalid, t.h)
               ELSE Ret(f.srsUser \o << "@" >> \o f.srsHost, NoErr, t.h) :
                 t \in hash(s, h, ToLower(f.srsTimestamp \o f.srsHost \o f.srsUser)) }
    ELSE IF IsSRS1(local) THEN
        LET g == parseSRS1(local) IN
        IF g.err # NoErr THEN { Ret(<< >>, g.err, h) }
        ELSE { IF ~EqualFold(g.srs1Hash, t.s)
               THEN Ret(<< >>, ErrHashInvalid, t.h)
               ELSE Ret(SRS0 \o g.srsLocal \o << "@" >> \o g.srs1Host, NoErr, t.h) :
                 t \in hash(s, h, ToLower(g.srs1Host \o g.srsLocal)) }
    ELSE { Ret(<< >>, ErrNoSRS, h) }

----------------------------------------------------------------------------
(* The relays and the addresses handed to them.                            *)

Relays == { "r1", "r2" }

DomainOf(r) == IF r = "r1" THEN << "p",".","d" >> ELSE << "q",".","d" >>

\* the SRS struct literal each relay is built from; r1's separator varies
Engine(r, fs) ==
    IF r = "r1"
    THEN [Secret |-> "k1", Domain |-> DomainOf(r), FirstSeparator |-> fs,
          NowFunc |-> "nil", once |-> FALSE]
    ELSE [Secret |-> "k2", Domain |-> DomainOf(r), FirstSeparator |-> << "=" >>,
          NowFunc |-> "custom", once |-> FALSE]

FirstSeparators == { << >>, << "+" >>, << "-" >> }

\* 2020-01-01 00:01:00 (slot 854, "2W")
StartClocks == { 1577836860 }

Inputs ==
    { << "a","b","@","h",".","c" >>,
      << "A","b","@","H",".","c" >>,
      << "a","b","@","h","=","c" >>,
      << "a","b","@","p",".","d" >>,
      << "S","R","S","0","=","z","@","p",".","d" >>,
      << "S","R","S","0","=","o","p","@","h",".","c" >>,
      << "s","r","s","0","-","o","=","p","@","h",".","c" >>,
      << "S","R","S","1","=","X","=","t",".","c","=","=","o","p","@","h",".","c" >>,
      << "S","R","S","1","+","Y","=","t",".","c","=","=","o","p","@","g",".","c" >>,
      << "S","R","S","1","=","X","=","t",".","c","@","h",".","c" >>,
      << "a","b","@" >>,
      << "f","o","o" >>,
      << >> }

MaxCalls == 3
MaxElapsedDays == 22
TickDays == { maxAge, maxAge + 1 }

Goroutines == { "g1", "g2" }

\* no goroutine is inside a call
RunIdle ==
    [pc |-> [g \in Goroutines |-> "idle"], op |-> [g \in Goroutines |-> "none"],
     mu |-> "free", started |-> 0, inits |-> 0, writes |-> << >>,
     cfg0 |-> Engine("r1", << >>)]

Call(op, r, email, o, now) ==
    [op |-> op, relay |-> r, email |-> email, out |-> o.out, err |-> o.err,
     now |-> now]

Live == IF hist = << >> THEN TRUE ELSE hist[Len(hist)].err = NoErr

Init ==
    /\ srs \in { [r \in Relays |-> Engine(r, fs)] : fs \in FirstSeparators }
    /\ clock \in StartClocks
    /\ hmac = [k \in { } |-> << >>]
    /\ hist = << >>
    /\ cur \in Inputs
    /\ run = RunIdle

CallForward(r) ==
    /\ Len(hist) < MaxCalls
    /\ Live
    /\ LET s == onceDo(srs[r]) IN
       \E o \in Forward(s, hmac, clock, cur) :
          /\ srs' = [srs EXCEPT ![r] = s]
          /\ hmac' = o.h
          /\ hist' = Append(hist, Call("Forward", r, cur, o, clock))
          /\ cur' = IF o.err = NoErr THEN o.out ELSE cur
    /\ UNCHANGED << clock, run >>

CallReverse(r) ==
    /\ Len(hist) < MaxCalls
    /\ Live
    /\ LET s == onceDo(srs[r]) IN
       \E o \in Reverse(s, hmac, clock, cur) :
          /\ srs' = [srs EXCEPT ![r] = s]
          /\ hmac' = o.h
          /\ hist' = Append(hist, Call("Reverse", r, cur, o, clock))
          /\ cur' = IF o.err = NoErr THEN o.out ELSE cur
    /\ UNCHANGED << clock, run >>

\* time passes between two calls
Tick(d) ==
    /\ hist # << >>
    /\ Len(hist) < MaxCalls
    /\ Live
    /\ clock + d * timePrecision - hist[1].now <= MaxElapsedDays * timePrecision
    /\ clock' = clock + d * timePrecision
    /\ UNCHANGED << srs, hmac, hist, cur, run >>

Next ==
    \/ \E r \in Relays : CallForward(r)
    \/ \E r \in Relays : CallReverse(r)
    \/ \E d \in TickDays : Tick(d)

Spec == Init /\ [][Next]_vars

----------------------------------------------------------------------------
(* One relay is handed foreign second-form addresses, one after another.   *)

PairInputs ==
    { << "S","R","S","1","=","X","=","t",".","c","=","=","o","p","@","h",".","c" >>,
      << "S","R","S","1","+","Y","=","t",".","c","=","=","o","p","@","g",".","c" >>,
      << "s","r","s","1","-","=","t",".","c","=","=","o","p","@","h",".","c" >>,
      << "S","R","S","1","=","X","=","t",".","c","=","-","o","p","@","h",".","c" >>,
      << "S","R","S","1","=","X","=","u",".","c","=","=","o","p","@","h",".","c" >> }

InitPair ==
    /\ srs \in { [r \in Relays |-> Engine(r, fs)] : fs \in FirstSeparators }
    /\ clock = 1577836860
    /\ hmac = [k \in { } |-> << >>]
    /\ hist = << >>
    /\ cur \in PairInputs
    /\ run = RunIdle

\* another address arrives
Submit(e) ==
    /\ hist # << >>
    /\ Len(hist) < MaxCalls
    /\ cur' = e
    /\ UNCHANGED << srs, clock, hmac, hist, run >>

NextPair ==
    \/ CallForward("r1")
    \/ \E e \in PairInputs : Submit(e)

SpecPair == InitPair /\ [][NextPair]_vars

----------------------------------------------------------------------------
(* One relay wraps an address and is asked for it back 21 or 22 days       *)
(* later, from every day of the cycle.                                     *)

MaxStartDay == 1100

InitExpiry ==
    /\ srs = [r \in Relays |-> Engine(r, << >>)]
    /\ clock \in { d * timePrecision + 60 : d \in 0..MaxStartDay }
    /\ hmac = [k \in { } |-> << >>]
    /\ hist = << >>
    /\ cur = << "a","b","@","h",".","c" >>
    /\ run = RunIdle

NextExpiry ==
    \/ hist = << >> /\ CallForward("r1")
    \/ hist # << >> /\ CallReverse("r1")
    \/ \E d \in TickDays : Tick(d)

SpecExpiry == InitExpiry /\ [][NextExpiry]_vars

----------------------------------------------------------------------------
(* One character of a wrapped address is replaced before it comes back.    *)

TamperChars ==
    { "=", "+", ".", "x", "3", "a", "A", "b", "B", "c", "C", "d", "D",
      "h", "H", "w", "W" }

InitTamper ==
    /\ srs \in { [r \in Relays |-> Engine(r, fs)] : fs \in FirstSeparators }
    /\ clock = 1577836860
    /\ hmac = [k \in { } |-> << >>]
    /\ hist = << >>
    /\ cur = << "A","b","@","H",".","c" >>
    /\ run = RunIdle

\* the character at pos (from 1) of the address in flight becomes c
Tamper(pos, c) ==
    /\ hist # << >>
    /\ Len(hist) < MaxCalls
    /\ Live
    /\ cur = hist[Len(hist)].out
    /\ pos \in 1..Len(cur)
    /\ c # cur[pos]
    /\ cur' = [cur EXCEPT ![pos] = c]
    /\ UNCHANGED << srs, clock, hmac, hist, run >>

NextTamper ==
    \/ hist = << >> /\ CallForward("r1")
    \/ \E pos \in 1..Len(cur), c \in TamperChars :
          Len(SRS0) + 1 < pos /\ pos < IndexRune(cur, "@") /\ Tamper(pos, c)
    \/ hist # << >> /\ CallReverse("r1")

SpecTamper == InitTamper /\ [][NextTamper]_vars

----------------------------------------------------------------------------
(* Letters of a wrapped address change their case before it comes back.    *)

CaseInputs ==
    { << "A","b","@","H",".","c" >>,
      << "S","R","S","0","=","o","P","@","h",".","C" >> }

InitCase ==
    /\ srs \in { [r \in Relays |-> Engine(r, fs)] : fs \in FirstSeparators }
    /\ clock = 1577836860
    /\ hmac = [k \in { } |-> << >>]
    /\ hist = << >>
    /\ cur \in CaseInputs
    /\ run = RunIdle

\* the letter at pos with its case changed
FlipAt(e, pos) ==
    [e EXCEPT ![pos] = IF ToUpperRune(@) = @ THEN ToLowerRune(@) ELSE ToUpperRune(@)]

\* the address in flight becomes e, which differs from it in letter case only
Recase(e) ==
    /\ hist # << >>
    /\ Len(hist) < MaxCalls
    /\ Live
    /\ cur = hist[Len(hist)].out
    /\ e # cur
    /\ ToLower(e) = ToLower(cur)
    /\ cur' = e
    /\ UNCHANGED << srs, clock, hmac, hist, run >>

NextCase ==
    \/ hist = << >> /\ CallForward("r1")
    \/ Recase(ToLower(cur))
    \/ Recase(ToUpper(cur))
    \/ \E pos \in 1..Len(cur) : Recase(FlipAt(cur, pos))
    \/ hist # << >> /\ CallReverse("r1")

SpecCase == InitCase /\ [][NextCase]_vars

----------------------------------------------------------------------------
(* Addresses that are not envelopes, and strings that are not addresses.   *)

RejectInputs ==
    { << "a","b","@","h",".","c" >>,
      << "S","R","S","0","@","h",".","c" >>,
      << "S","R","S","0","_","a","@","h",".","c" >>,
      << "s","r","s","1","x","=","a","@","h",".","c" >>,
      << "S","R","S","2","=","a","@","h",".","c" >>,
      << "S","R","S","0","=","a","b","@" >>,
      << "S","R","S","0","=","a","=","b","=","c","=","d" >>,
      << "S","R","S","0","=","a","@","b","@","c" >>,
      << "a"," ","b","@","h",".","c" >>,
      << "a",".","@","h",".","c" >>,
      << "@","h",".","c" >>,
      << "@" >>,
      << "f","o","o" >>,
      << >> }

InitReject ==
    /\ srs \in { [r \in Relays |-> Engine(r, fs)] : fs \in FirstSeparators }
    /\ clock = 1577836860
    /\ hmac = [k \in { } |-> << >>]
    /\ hist = << >>
    /\ cur \in RejectInputs
    /\ run = RunIdle

NextReject ==
    \/ CallForward("r1")
    \/ CallReverse("r1")

SpecReject == InitReject /\ [][NextReject]_vars

----------------------------------------------------------------------------
(* Goroutines call Forward and Reverse of one engine at the same time.     *)
(* sync.Once: Do(f) returns at once if done is set; otherwise it locks the *)
(* mutex, and if done is still not set it runs f and then sets done, and   *)
(* it unlocks.                                                             *)

OnceSeparators ==
    { << >>, << "=" >>, << "+" >>, << "-" >>, << "x" >>, << "=","=" >>, << "+","-" >> }
NowFuncs == { "nil", "custom" }

InitOnce ==
    /\ srs \in { [r \in Relays |->
                    IF r = "r1" THEN [Engine(r, fs) EXCEPT !.NowFunc = nf]
                    ELSE Engine(r, fs)] :
                  fs \in OnceSeparators, nf \in NowFuncs }
    /\ clock = 1577836860
    /\ hmac = [k \in { } |-> << >>]
    /\ hist = << >>
    /\ cur = << "a","b","@","h",".","c" >>
    /\ run = [RunIdle EXCEPT !.cfg0 = srs["r1"]]

\* goroutine g calls Forward or Reverse
Begin(g, op) ==
    /\ run.pc[g] = "idle"
    /\ run.started < MaxCalls
    /\ run' = [run EXCEPT !.pc[g] = "Do", !.op[g] = op, !.started = @ + 1]
    /\ UNCHANGED << srs, clock, hmac, hist, cur >>

\* Once.Do: if o.done.Load() == 0 { o.doSlow(f) }
DoFast(g) ==
    /\ run.pc[g] = "Do"
    /\ run' = [run EXCEPT !.pc[g] = IF onceDone(srs["r1"]) THEN "body" ELSE "lock"]
    /\ UNCHANGED << srs, clock, hmac, hist, cur >>

\* doSlow: o.m.Lock()
Lock(g) ==
    /\ run.pc[g] = "lock"
    /\ run.mu = "free"
    /\ run' = [run EXCEPT !.pc[g] = "check", !.mu = g]
    /\ UNCHANGED << srs, clock, hmac, hist, cur >>

\* doSlow: if o.done.Load() == 0 { defer o.done.Store(1); f() }
DoSlow(g) ==
    /\ run.pc[g] = "check"
    /\ IF onceDone(srs["r1"])
       THEN run' = [run EXCEPT !.pc[g] = "body", !.mu = "free"]
       ELSE run' = [run EXCEPT !.pc[g] = "fs", !.inits = @ + 1]
    /\ UNCHANGED << srs, clock, hmac, hist, cur >>

\* setDefaults: the switch on srs.FirstSeparator
SetFirstSeparator(g) ==
    /\ run.pc[g] = "fs"
    /\ LET new == setDefaults(srs["r1"]).FirstSeparator IN
       /\ srs' = [srs EXCEPT !["r1"].FirstSeparator = new]
       /\ run' = [run EXCEPT
                    !.pc[g] = "now",
                    !.writes = IF new = srs["r1"].FirstSeparator THEN @
                               ELSE Append(@, [g |-> g, field |-> "FirstSeparator",
                                               done |-> srs["r1"].once])]
    /\ UNCHANGED << clock, hmac, hist, cur >>

\* setDefaults: if srs.NowFunc == nil
SetNowFunc(g) ==
    /\ run.pc[g] = "now"
    /\ LET new == setDefaults(srs["r1"]).NowFunc IN
       /\ srs' = [srs EXCEPT !["r1"].NowFunc = new]
       /\ run' = [run EXCEPT
                    !.pc[g] = "store",
                    !.writes = IF new = srs["r1"].NowFunc THEN @
                               ELSE Append(@, [g |-> g, field |-> "NowFunc",
                                               done |-> srs["r1"].once])]
    /\ UNCHANGED << clock, hmac, hist, cur >>

\* the deferred o.done.Store(1) and o.m.Unlock()
Store(g) ==
    /\ run.pc[g] = "store"
    /\ srs' = [srs EXCEPT !["r1"].once = TRUE]
    /\ run' = [run EXCEPT !.pc[g] = "body", !.mu = "free"]
    /\ UNCHANGED << clock, hmac, hist, cur >>

\* the rest of Forward or Reverse, which reads the configuration, and return
Body(g) ==
    /\ run.pc[g] = "body"
    /\ \E o \in IF run.op[g] = "Forward"
                 THEN Forward(srs["r1"], hmac, clock, cur)
                 ELSE Reverse(srs["r1"], hmac, clock, cur) :
          /\ hmac' = o.h
          /\ hist' = Append(hist, Call(run.op[g], "r1", cur, o, clock))
          /\ cur' = IF o.err = NoErr THEN o.out ELSE cur
    /\ run' = [run EXCEPT !.pc[g] = "idle", !.op[g] = "none"]
    /\ UNCHANGED << srs, clock >>

NextOnce ==
    \E g \in Goroutines :
        \/ Begin(g, "Forward")
        \/ Begin(g, "Reverse")
        \/ DoFast(g)
        \/ Lock(g)
        \/ DoSlow(g)
        \/ SetFirstSeparator(g)
        \/ SetNowFunc(g)
        \/ Store(g)
        \/ Body(g)

SpecOnce == InitOnce /\ [][NextOnce]_vars

----------------------------------------------------------------------------
(* The time-slot functions on their own: timestamp and base32Encode on the *)
(* clock, checkTimestamp on the clock and a time-stamp string.  The        *)
(* strings have at most MaxTsLen characters, so that then stays far below  *)
(* the width of int.                                                       *)

MaxTsLen == 3

\* days since the epoch at which the clock stands, some before the epoch
StampDays == { -1025, -2, -1, 0, 20, 21, 22, 1002, 1003, 1023, 18262 }

\* the clock stands one minute into one of those days, or a second before
\* the epoch
StampClocks == { d * timePrecision + 60 : d \in StampDays } \cup { -1 }

SlotStrings == { base32Encode(t) : t \in 0..(timeSlots - 1) }

TsStrings ==
    SlotStrings
      \cup { ToLower(e) : e \in SlotStrings }
      \cup { << "2","w" >>, << "z","Z" >>, << "A","A" >>, << "A","B" >> }
      \cup { e \in { << "7","7","7" >>, << "B","2","W" >>, << "B","A","A" >>,
                      << "A","2","W" >>, << "h","2","w" >>,
                      << "B","A","A","A" >> } : Len(e) <= MaxTsLen }
      \cup { << "0" >>, << "1" >>, << "8" >>, << "2","_" >>, << "!","W" >>,
             << "2"," " >>, << "=" >> }

InitStamp ==
    /\ srs = [r \in Relays |-> onceDo(Engine(r, << >>))]
    /\ clock \in StampClocks
    /\ hmac = [k \in { } |-> << >>]
    /\ hist = << >>
    /\ cur \in TsStrings
    /\ run = RunIdle

Applied(op) == \E i \in 1..Len(hist) : hist[i].op = op

\* ts := base32Encode(timestamp(srs.NowFunc()))
Stamp ==
    /\ ~Applied("timestamp")
    /\ hist' = Append(hist,
                  [op |-> "timestamp", relay |-> "r1", email |-> << >>,
                   out |-> base32Encode(timestamp(clock)), err |-> NoErr,
                   now |-> clock, slot |-> timestamp(clock)])
    /\ UNCHANGED << srs, clock, hmac, cur, run >>

\* srs.checkTimestamp(ts), with the values its local variables take
Check ==
    /\ ~Applied("checkTimestamp")
    /\ hist' = Append(hist,
                  [op |-> "checkTimestamp", relay |-> "r1", email |-> cur,
                   out |-> << >>, err |-> checkTimestamp(clock, cur),
                   now |-> clock, slot |-> timestamp(clock),
                   bad |-> BadBase32(cur),
                   then |-> IF BadBase32(cur) THEN 0 ELSE decodeFrom(0, cur),
                   laps |-> IF BadBase32(cur) THEN 0
                            ELSE cycleLaps(timestamp(clock), decodeFrom(0, cur))])
    /\ UNCHANGED << srs, clock, hmac, cur, run >>

NextStamp == Stamp \/ Check

SpecStamp == InitStamp /\ [][NextStamp]_vars

----------------------------------------------------------------------------
(* Envelopes written by hand, well-formed and not, handed to Forward and   *)
(* to Reverse of one relay.                                                *)

\* local-parts under the relay's own domain
OwnEnvelopes ==
    { << "S","R","S","0","=","a","B","c","d","=","2","W","=","h",".","c","=","a","b","@","p",".","d" >>,
      << "S","R","S","0","=","F","A","K","E","=","2","_","=","h",".","c","=","a","b","@","p",".","d" >>,
      << "S","R","S","0","=","F","A","K","E","=","A","B","=","h",".","c","=","a","b","@","p",".","d" >>,
      << "S","R","S","0","=","F","A","K","E","=","2","W","=","h",".","c","=","a","b","@","p",".","d" >>,
      << "S","R","S","0","=","a","B","c","d","=","2","W","=","h",".","c","@","p",".","d" >>,
      << "S","R","S","0","=","F","A","K","E","=","2","_","@","p",".","d" >>,
      << "S","R","S","0","=","@","p",".","d" >>,
      << "S","R","S","0","=","a","B","c","d","=","=","=","@","p",".","d" >>,
      << "S","R","S","0","=","=","=","=","@","p",".","d" >>,
      << "S","R","S","1","=","a","B","c","d","=","h",".","c","=","=","o","p","@","p",".","d" >>,
      << "S","R","S","1","=","a","B","c","d","=","h",".","c","=","-","o","=","=","p","@","p",".","d" >>,
      << "S","R","S","1","=","a","B","c","d","=","=","o","p","@","p",".","d" >>,
      << "S","R","S","1","=","a","B","c","=","=","o","p","@","p",".","d" >>,
      << "S","R","S","1","=","a","=","h","=","=","o","p","@","p",".","d" >>,
      << "S","R","S","1","=","a","=","h","h","=","=","o","p","@","p",".","d" >>,
      << "S","R","S","1","=","=","o","p","@","p",".","d" >>,
      << "S","R","S","1","=","a","B","c","d","=","h",".","c","=","=","@","p",".","d" >>,
      << "S","R","S","1","=","a","B","c","d","=","h",".","c","@","p",".","d" >>,
      << "S","R","S","1","=","@","p",".","d" >>,
      << "S","R","S","1","=","a","B","c","d","=","h",".","c","=","=","F","A","K","E","=","2","_","=","g","=","u","@","p",".","d" >>,
      << "S","R","S","1","+","a","B","c","d","=","h",".","c","=","+","o","p","@","p",".","d" >>,
      << "S","R","S","0","@","p",".","d" >> }

\* local-parts under another domain, and strings without one
ForeignEnvelopes ==
    { << "S","R","S","1","=","X","=","t",".","c","=","=","o","p","@","h",".","c" >>,
      << "S","R","S","1","=","X","=","t",".","c","=","o","p","@","h",".","c" >>,
      << "S","R","S","1","=","X","=","t",".","c","@","h",".","c" >>,
      << "S","R","S","0","=","o","p","@","h",".","c" >>,
      << "S","R","S","0","=","F","A","K","E","=","2","_","=","g","=","u","@","h",".","c" >>,
      << "S","R","S","0","=","@","h",".","c" >>,
      << "S","R","S","1","=","@","h",".","c" >>,
      << "S","R","S","0","@","h",".","c" >>,
      << "a","b","@","h",".","c" >>,
      << "a","b","@" >>,
      << >> }

EnvelopeClocks == { 60, 1577836860 }

InitEnvelope ==
    /\ srs \in { [r \in Relays |-> Engine(r, fs)] : fs \in FirstSeparators }
    /\ clock \in EnvelopeClocks
    /\ hmac = [k \in { } |-> << >>]
    /\ hist = << >>
    /\ cur \in OwnEnvelopes \cup ForeignEnvelopes
    /\ run = RunIdle

NextEnvelope ==
    \/ CallForward("r1")
    \/ CallReverse("r1")
    \/ \E d \in TickDays : Tick(d)

SpecEnvelope == InitEnvelope /\ [][NextEnvelope]_vars

----------------------------------------------------------------------------
(* An address is forwarded from relay to relay, each relay once.           *)

ChainRelays == Relays \cup { "r3" }

ChainEngine(r, fs) ==
    IF r = "r3"
    THEN [Secret |-> "k3", Domain |-> << "s",".","d" >>,
          FirstSeparator |-> << "-" >>, NowFunc |-> "nil", once |-> FALSE]
    ELSE Engine(r, fs)

ChainInputs ==
    { << "a","b","@","h",".","c" >>,
      << "a","=","b","@","H",".","c" >>,
      << "a","b","@" >> }

InitChain ==
    /\ srs \in { [r \in ChainRelays |-> ChainEngine(r, fs)] :
                  fs \in FirstSeparators }
    /\ clock = 1577836860
    /\ hmac = [k \in { } |-> << >>]
    /\ hist = << >>
    /\ cur \in ChainInputs
    /\ run = RunIdle

NextChain ==
    \/ \E r \in ChainRelays :
          (\A i \in 1..Len(hist) : hist[i].relay # r) /\ CallForward(r)
    \/ \E d \in TickDays : Tick(d)

SpecChain == InitChain /\ [][NextChain]_vars

----------------------------------------------------------------------------
(* One character of a wrapped address is moved to another place of its     *)
(* local-part before the address comes back.                               *)

ShiftInputs ==
    { << "a","b","@","h",".","c" >>,
      << "S","R","S","0","=","o","p","@","a","-","b" >>,
      << "S","R","S","0","=","o","p","@","h",".","c" >> }

InitShift ==
    /\ srs \in { [r \in Relays |-> Engine(r, fs)] : fs \in FirstSeparators }
    /\ clock = 1577836860
    /\ hmac = [k \in { } |-> << >>]
    /\ hist = << >>
    /\ cur \in ShiftInputs
    /\ run = RunIdle

\* the character at from (from 1) of the address in flight is taken out and
\* put in again so that it stands at to
Move(from, to) ==
    /\ hist # << >>
    /\ Len(hist) < MaxCalls
    /\ Live
    /\ cur = hist[Len(hist)].out
    /\ from # to
    /\ LET rest == SubSeq(cur, 1, from - 1) \o SubSeq(cur, from + 1, Len(cur))
           moved == SubSeq(rest, 1, to - 1) \o << cur[from] >>
                      \o SubSeq(rest, to, Len(rest))
       IN /\ moved # cur
          /\ cur' = moved
    /\ UNCHANGED << srs, clock, hmac, hist, run >>

NextShift ==
    \/ hist = << >> /\ CallForward("r1")
    \/ \E from, to \in (5 + hashLength + 1)..(IndexRune(cur, "@") - 1) :
          Move(from, to)
    \/ hist # << >> /\ CallReverse("r1")

SpecShift == InitShift /\ [][NextShift]_vars

----------------------------------------------------------------------------
(* checkTimestamp statement by statement, on an int of IntBits bits        *)
(* (two's complement; Go's int has 64): "then<<5 | pos" and "now + 1024"   *)
(* wrap around.                                                            *)

IntBits == 16

WrapInt(x) == ((x + 2 ^ (IntBits - 1)) % (2 ^ IntBits)) - 2 ^ (IntBits - 1)

\* time stamps of alphabet characters; "777", "A777" and "B777" decode to
\* the largest int of 16 and of 17 bits
LoopStrings ==
    { << >>, << "2","W" >>, << "2","w" >>, << "A","B" >>, << "7","7" >>,
      << "H","2","W" >>, << "7","7","7" >>, << "7","6","2" >>,
      << "A","7","7","7" >>, << "B","7","7","7" >>, << "B","A","A","A" >>,
      << "D","7","7","7" >>, << "2","W","2","W" >>, << "2","_" >> }

LoopClocks == { 60, 1577836860 }

InitLoop ==
    /\ srs = [r \in Relays |-> onceDo(Engine(r, << >>))]
    /\ clock \in LoopClocks
    /\ hmac = [k \in { } |-> << >>]
    /\ hist = << >>
    /\ cur \in LoopStrings
    /\ run = [pc |-> "decode", i |-> 0, then |-> 0, now |-> 0, err |-> NoErr]

\* one round of "for _, c := range ts"
DecodeStep ==
    /\ run.pc = "decode"
    /\ run.i < Len(cur)
    /\ LET pos == IndexIn(base32, ToUpperRune(cur[run.i + 1])) - 1 IN
       run' = IF pos = -1
              THEN [run EXCEPT !.pc = "return", !.err = ErrTimestampInvalidBase32]
              ELSE [run EXCEPT !.i = @ + 1, !.then = WrapInt(@ * 32 + pos)]
    /\ UNCHANGED << srs, clock, hmac, hist, cur >>

\* now := timestamp(srs.NowFunc())
ReadNow ==
    /\ run.pc = "decode"
    /\ run.i = Len(cur)
    /\ run' = [run EXCEPT !.pc = "loop", !.now = timestamp(clock)]
    /\ UNCHANGED << srs, clock, hmac, hist, cur >>

\* one round of "for now < then { now = now + int(timeSlots) }"
LoopStep ==
    /\ run.pc = "loop"
    /\ run.now < run.then
    /\ run' = [run EXCEPT !.now = WrapInt(@ + timeSlots)]
    /\ UNCHANGED << srs, clock, hmac, hist, cur >>

\* "if now <= then+maxAge { return nil }; return ErrTimestampWrongSlot"
Compare ==
    /\ run.pc = "loop"
    /\ ~(run.now < run.then)
    /\ run' = [run EXCEPT
                 !.pc = "return",
                 !.err = IF run.now <= WrapInt(run.then + maxAge)
                         THEN NoErr ELSE ErrTimestampWrongSlot]
    /\ UNCHANGED << srs, clock, hmac, hist, cur >>

NextLoop == DecodeStep \/ ReadNow \/ LoopStep \/ Compare

\* the goroutine keeps running
SpecLoop == InitLoop /\ [][NextLoop]_vars /\ WF_vars(NextLoop)

----------------------------------------------------------------------------
(* What the claims speak of.                                               *)

Calls == 1..Len(hist)
IsForward(i) == hist[i].op = "Forward"
IsReverse(i) == hist[i].op = "Reverse"
Ok(i) == hist[i].err = NoErr
\* the input of call i as the address splitter splits it
In(i) == parseEmail(hist[i].email)
Cfg(i) == srs[hist[i].relay]
Unwrapped(local) == ~IsSRS0(local) /\ ~IsSRS1(local)
\* whole days between call i and call j
DaysBetween(i, j) == (hist[j].now - hist[i].now) \div timePrecision
\* the tag the engine of call i computes over msg, once HMAC has been asked
Signed(i, msg) == << Cfg(i).Secret, msg >> \in DOMAIN hmac
TagOf(i, msg) == UpTo(hmac[<< Cfg(i).Secret, msg >>], hashLength)
\* call j is Reverse, by the same engine, of what Forward call i returned
ReverseOf(i, j) ==
    /\ i < j /\ IsForward(i) /\ Ok(i) /\ IsReverse(j)
    /\ hist[j].relay = hist[i].relay
    /\ hist[j].email = hist[i].out

\* C1: Reverse(Forward(user@host)) = user@host for every address the splitter
\* accepts with an unwrapped local-part and a host other than the relay's
\* domain, when Reverse runs within maxAge days of Forward.
C1_RoundTrip ==
    \A i, j \in Calls :
        ( /\ ReverseOf(i, j)
          /\ In(i).err = NoErr
          /\ Unwrapped(In(i).user)
          /\ In(i).domain # Cfg(i).Domain
          /\ DaysBetween(i, j) <= maxAge )
        => (Ok(j) /\ hist[j].out = hist[i].email)

\* C1 holds of the hosts that have no '=' in them
C1_RoundTripPlainHost ==
    \A i, j \in Calls :
        ( /\ ReverseOf(i, j)
          /\ In(i).err = NoErr
          /\ Unwrapped(In(i).user)
          /\ In(i).domain # Cfg(i).Domain
          /\ ~ContainsRune(In(i).domain, "=")
          /\ DaysBetween(i, j) <= maxAge )
        => (Ok(j) /\ hist[j].out = hist[i].email)

\* C2: Forward returns its input unchanged, without error, when the input's
\* domain is the relay's domain, whatever the local-part; so Forward of an
\* output of Forward of the same engine returns that output.
C2_LocalDomainUnchanged ==
    /\ \A i \in Calls :
          (IsForward(i) /\ In(i).err = NoErr /\ In(i).domain = Cfg(i).Domain)
          => (Ok(i) /\ hist[i].out = hist[i].email)
    /\ \A i, j \in Calls :
          ( /\ i < j /\ IsForward(i) /\ Ok(i) /\ IsForward(j)
            /\ hist[j].relay = hist[i].relay
            /\ hist[j].email = hist[i].out )
          => (Ok(j) /\ hist[j].out = hist[i].out)

\* a relay was handed its own wrapped output, and an SRS0 address at its domain
C2_Witness ==
    /\ \E i, j \in Calls :
          /\ i < j /\ IsForward(i) /\ Ok(i) /\ IsForward(j)
          /\ hist[j].relay = hist[i].relay
          /\ hist[j].email = hist[i].out
          /\ hist[i].out # hist[i].email
          /\ IsSRS1(In(j).user)
    /\ \E i \in Calls :
          /\ IsForward(i) /\ IsSRS0(In(i).user) /\ In(i).domain = Cfg(i).Domain
          /\ hist[i].email \in Inputs

\* the address Forward is to build from an unwrapped local@domain
WrappedOnce(i, local, domain) ==
    LET ts == base32Encode(timestamp(hist[i].now))
        msg == ToLower(ts \o domain \o local)
    IN /\ Ok(i)
       /\ Signed(i, msg)
       /\ hist[i].out =
            SRS0 \o Cfg(i).FirstSeparator \o TagOf(i, msg) \o << "=" >> \o ts
              \o << "=" >> \o domain \o << "=" >> \o local \o << "@" >>
              \o Cfg(i).Domain

\* C3 as stated: Forward on any unwrapped local@domain returns
\* SRS0 firstSeparator tag = timestamp = domain = local @ configuredDomain.
C3_UnwrappedForm ==
    \A i \in Calls :
        (IsForward(i) /\ In(i).err = NoErr /\ Unwrapped(In(i).user))
        => WrappedOnce(i, In(i).user, In(i).domain)

\* C3 amended: Forward on an unwrapped local@domain whose domain is not the
\* relay's domain returns SRS0 firstSeparator tag = timestamp = domain =
\* local @ configuredDomain, the tag computed over the lower-cased
\* timestamp+domain+local, domain and local copied in their own letter case.
C3_UnwrappedFormForeign ==
    \A i \in Calls :
        ( /\ IsForward(i) /\ In(i).err = NoErr /\ Unwrapped(In(i).user)
          /\ In(i).domain # Cfg(i).Domain )
        => WrappedOnce(i, In(i).user, In(i).domain)

\* a mixed-case address was wrapped, by a relay whose separator is not '='
C3_Witness ==
    \E i \in Calls :
        /\ IsForward(i) /\ In(i).err = NoErr /\ Unwrapped(In(i).user)
        /\ In(i).domain # Cfg(i).Domain
        /\ Ok(i)
        /\ ToLower(hist[i].email) # hist[i].email
        /\ Cfg(i).FirstSeparator # << "=" >>
        /\ HasPrefix(hist[i].out, SRS0)

\* C4: Forward on a foreign SRS0 address (any case of the prefix, separator
\* '=', '+' or '-', host other than the relay's domain) returns
\* SRS1 firstSeparator tag = host = opaquePart @ configuredDomain, opaquePart
\* the local-part from its separator on, the tag over the lower-cased
\* host+opaquePart; the foreign envelope is not validated.
C4_ForeignSRS0Form ==
    \A i \in Calls :
        ( /\ IsForward(i) /\ In(i).err = NoErr /\ IsSRS0(In(i).user)
          /\ In(i).domain # Cfg(i).Domain )
        => LET opaque == From(In(i).user, 4)
               msg == ToLower(In(i).domain \o opaque)
           IN /\ Ok(i)
              /\ Signed(i, msg)
              /\ hist[i].out =
                   SRS1 \o Cfg(i).FirstSeparator \o TagOf(i, msg) \o << "=" >>
                     \o In(i).domain \o << "=" >> \o opaque \o << "@" >>
                     \o Cfg(i).Domain

\* a foreign SRS0 address with fewer than four fields, the separator '-' and
\* a lower-case prefix was rewritten
C4_Witness ==
    \E i \in Calls :
        /\ IsForward(i) /\ Ok(i) /\ IsSRS0(In(i).user)
        /\ In(i).domain # Cfg(i).Domain
        /\ Len(SplitN(From(In(i).user, 5), "=", 4)) < 4
        /\ In(i).user[5] = "-"
        /\ UpTo(In(i).user, 4) # SRS0
        /\ HasPrefix(hist[i].out, SRS1)

\* the fields of a second-form local-part: after the five characters of the
\* prefix, the tag up to the first '=', the host up to the next '=', and the
\* inner opaque part from there on (it starts with the inner separator)
SRS1Tag(local) == SplitN(From(local, 5), "=", 2)[1]
SRS1Host(local) == SplitN(SplitN(From(local, 5), "=", 2)[2], "=", 2)[1]
SRS1Inner(local) == SplitN(SplitN(From(local, 5), "=", 2)[2], "=", 2)[2]
HasSRS1Fields(local) == IsSRS1(local) /\ Len(SplitN(From(local, 5), "=", 3)) = 3
ForeignSRS1(i) ==
    /\ IsForward(i) /\ In(i).err = NoErr /\ HasSRS1Fields(In(i).user)
    /\ In(i).domain # Cfg(i).Domain

\* the second-form address an engine builds over (host, inner)
Resigned(i, host, inner) ==
    LET msg == ToLower(host \o inner) IN
    /\ Ok(i)
    /\ Signed(i, msg)
    /\ hist[i].out =
         SRS1 \o Cfg(i).FirstSeparator \o TagOf(i, msg) \o << "=" >> \o host
           \o << "=" >> \o inner \o << "@" >> \o Cfg(i).Domain

\* C5: Forward on a foreign SRS1 address returns
\* SRS1 firstSeparator tag = host = innerOpaquePart @ configuredDomain with
\* the tag over the lower-cased host+innerOpaquePart only; two such addresses
\* with the same host and innerOpaquePart give the same output, whatever
\* their tag, first separator and domain-part.
C5_ResignSamePair ==
    /\ \A i \in Calls :
          ForeignSRS1(i)
          => Resigned(i, SRS1Host(In(i).user), SRS1Inner(In(i).user))
    /\ \A i, j \in Calls :
          ( /\ ForeignSRS1(i) /\ ForeignSRS1(j)
            /\ hist[i].relay = hist[j].relay
            /\ SRS1Host(In(i).user) = SRS1Host(In(j).user)
            /\ SRS1Inner(In(i).user) = SRS1Inner(In(j).user) )
          => hist[i].out = hist[j].out

\* two foreign SRS1 addresses that differ in tag, first separator and domain
\* were re-signed to the same address
C5_Witness ==
    \E i, j \in Calls :
        /\ ForeignSRS1(i) /\ ForeignSRS1(j)
        /\ hist[i].relay = hist[j].relay
        /\ SRS1Tag(In(i).user) # SRS1Tag(In(j).user)
        /\ In(i).user[5] # In(j).user[5]
        /\ In(i).domain # In(j).domain
        /\ SRS1Host(In(i).user) = SRS1Host(In(j).user)
        /\ SRS1Inner(In(i).user) = SRS1Inner(In(j).user)
        /\ Ok(i) /\ Ok(j)
        /\ hist[i].out = hist[j].out

\* relay A's Forward output went to relay B's Forward, whose second-form
\* output came back to relay B's Reverse, which accepted it
Hops(i, j, k) ==
    /\ i < j /\ j < k
    /\ IsForward(i) /\ Ok(i)
    /\ IsForward(j) /\ Ok(j)
    /\ hist[j].relay # hist[i].relay
    /\ hist[j].email = hist[i].out
    /\ IsSRS1(parseEmail(hist[j].out).user)
    /\ ReverseOf(j, k) /\ Ok(k)

\* C6 as stated: Reverse on a second-form address strips one layer: the
\* address it returns is addressed at the previous relay, the one whose
\* Forward output was the input of the Forward that built the address.
C6_PreviousRelay ==
    \A i, j, k \in Calls :
        Hops(i, j, k) => parseEmail(hist[k].out).domain = Cfg(i).Domain

\* C6 amended: Reverse on a second-form address that it accepts returns
\* SRS0 innerOpaquePart @ host, host being the envelope's host field: the
\* relay that issued the first-form address.  That is the previous relay
\* when the previous relay issued a first-form address (Reverse then
\* returns the previous relay's output); a previous relay that re-signed
\* a second-form address is skipped.
C6_FirstRelay ==
    /\ \A j, k \in Calls :
          ( /\ ReverseOf(j, k) /\ Ok(k) /\ In(j).err = NoErr
            /\ In(j).domain # Cfg(j).Domain )
          => /\ IsSRS0(In(j).user)
                => hist[k].out = SRS0 \o From(In(j).user, 4) \o << "@" >> \o In(j).domain
             /\ IsSRS1(In(j).user)
                => hist[k].out = SRS0 \o SRS1Inner(In(j).user) \o << "@" >>
                                   \o SRS1Host(In(j).user)
    /\ \A i, j, k \in Calls :
          Hops(i, j, k)
          => IF IsSRS0(In(j).user)
             THEN hist[k].out = hist[i].out
             ELSE parseEmail(hist[k].out).domain = SRS1Host(In(j).user)

\* a relay re-signed a second-form address of the relay before it, and its
\* Reverse returned an address at neither of the two relays
C6_Witness ==
    \E i, j, k \in Calls :
        /\ Hops(i, j, k)
        /\ IsSRS1(In(j).user)
        /\ parseEmail(hist[k].out).domain # Cfg(i).Domain
        /\ parseEmail(hist[k].out).domain # Cfg(j).Domain

\* C7: Reverse(Forward(a)) succeeds for every foreign address a whose
\* local-part is SRS0 sep rest, and returns a, for each first separator and
\* each tag; for a foreign SRS1 address it succeeds and returns
\* SRS0 innerOpaquePart @ host.
C7_RoundTripRewrapped ==
    \A i, j \in Calls :
        ( /\ ReverseOf(i, j) /\ In(i).err = NoErr
          /\ In(i).domain # Cfg(i).Domain )
        => /\ (IsSRS0(In(i).user) /\ UpTo(In(i).user, 4) = SRS0)
              => (Ok(j) /\ hist[j].out = hist[i].email)
           /\ HasSRS1Fields(In(i).user)
              => ( /\ Ok(j)
                   /\ hist[j].out = SRS0 \o SRS1Inner(In(i).user) \o << "@" >>
                                       \o SRS1Host(In(i).user) )

\* C7 holds of the envelopes in which the scan of parseSRS1 first meets the
\* double separator behind the host: the tag does not follow '=' with '+',
\* and the host is not empty and starts with neither '+' nor '-'.
C7_RoundTripScanClean ==
    \A i, j \in Calls :
        ( /\ ReverseOf(i, j) /\ In(i).err = NoErr
          /\ In(i).domain # Cfg(i).Domain
          /\ IsSRS1(parseEmail(hist[i].out).user)
          /\ DoubleSepAt(parseEmail(hist[i].out).user)
               = 5 + hashLength + 1 + Len(SRS1Host(parseEmail(hist[i].out).user)) )
        => /\ (IsSRS0(In(i).user) /\ UpTo(In(i).user, 4) = SRS0)
              => (Ok(j) /\ hist[j].out = hist[i].email)
           /\ HasSRS1Fields(In(i).user)
              => ( /\ Ok(j)
                   /\ hist[j].out = SRS0 \o SRS1Inner(In(i).user) \o << "@" >>
                                       \o SRS1Host(In(i).user) )

\* C8: a first-form address of Forward is accepted by Reverse exactly
\* maxAge days later and turned away as expired maxAge+1 days later, at
\* every slot of the cycle, also when the cycle wraps between the two calls.
C8_ExpiryBoundary ==
    \A i, j \in Calls :
        (ReverseOf(i, j) /\ IsSRS0(parseEmail(hist[i].out).user))
        => /\ DaysBetween(i, j) = maxAge
              => (Ok(j) /\ hist[j].out = hist[i].email)
           /\ DaysBetween(i, j) = maxAge + 1
              => hist[j].err = ErrTimestampWrongSlot

\* Reverse accepted an address of exactly maxAge days whose slot is behind
\* the wrap of the cycle
C8_Witness ==
    \E i, j \in Calls :
        /\ ReverseOf(i, j) /\ IsSRS0(parseEmail(hist[i].out).user)
        /\ DaysBetween(i, j) = maxAge
        /\ timestamp(hist[j].now) < timestamp(hist[i].now)
        /\ timestamp(hist[j].now) < maxAge
        /\ Ok(j)

\* Reverse turned away an address of maxAge+1 days whose slot is behind the
\* wrap of the cycle
C8_WitnessExpired ==
    \E i, j \in Calls :
        /\ ReverseOf(i, j) /\ IsSRS0(parseEmail(hist[i].out).user)
        /\ DaysBetween(i, j) = maxAge + 1
        /\ timestamp(hist[j].now) < timestamp(hist[i].now)
        /\ hist[j].err = ErrTimestampWrongSlot

\* call j is Reverse, by the same engine, of what Forward call i returned
\* with the one character at pos replaced
TamperedAt(i, j, pos) ==
    /\ i < j /\ IsForward(i) /\ Ok(i) /\ IsReverse(j)
    /\ hist[j].relay = hist[i].relay
    /\ Len(hist[j].email) = Len(hist[i].out)
    /\ pos \in 1..Len(hist[i].out)
    /\ hist[j].email[pos] # hist[i].out[pos]
    /\ \A q \in 1..Len(hist[i].out) : q # pos => hist[j].email[q] = hist[i].out[q]

\* the fields of the first-form address Forward call i built from In(i)
TsLen(i) == Len(base32Encode(timestamp(hist[i].now)))
InTag(i, pos) == pos \in (5 + 1)..(5 + hashLength)
InTs(i, pos) == pos \in (5 + hashLength + 2)..(5 + hashLength + 1 + TsLen(i))
InHost(i, pos) ==
    pos \in (5 + hashLength + TsLen(i) + 3)
              ..(5 + hashLength + TsLen(i) + 2 + Len(In(i).domain))
InUser(i, pos) ==
    pos \in (5 + hashLength + TsLen(i) + Len(In(i).domain) + 4)
              ..(5 + hashLength + TsLen(i) + Len(In(i).domain) + 3 + Len(In(i).user))
CaseOnly(i, j, pos) ==
    ToLowerRune(hist[j].email[pos]) = ToLowerRune(hist[i].out[pos])
\* the byte sequence Reverse verifies the tag of a first-form local-part over
EnvMsg0(local) ==
    LET f == parseSRS0(local) IN ToLower(f.srsTimestamp \o f.srsHost \o f.srsUser)
PlainForeign(i) ==
    /\ In(i).err = NoErr /\ Unwrapped(In(i).user) /\ In(i).domain # Cfg(i).Domain

C9_WitnessCase ==
    \E i, j \in Calls : \E pos \in 1..Len(hist[i].out) :
        /\ PlainForeign(i) /\ TamperedAt(i, j, pos)
        /\ InHost(i, pos) /\ CaseOnly(i, j, pos) /\ Ok(j)
        /\ hist[j].out # hist[i].email

\* call j is Reverse, by another engine, of the envelope Forward call i built
CrossReverse(i, j) ==
    /\ i < j /\ IsForward(i) /\ Ok(i) /\ IsReverse(j)
    /\ hist[j].relay # hist[i].relay
    /\ Cfg(j).Secret # Cfg(i).Secret
    /\ hist[j].email = hist[i].out
    /\ hist[i].out # hist[i].email
    /\ IsSRS0(In(j).user) \/ IsSRS1(In(j).user)

\* the tag field of an envelope Forward built, and the bytes its tag covers
EnvTag(local) ==
    IF IsSRS0(local) THEN parseSRS0(local).srsHash ELSE SRS1Tag(local)
EnvMsg(local) ==
    IF IsSRS0(local) THEN EnvMsg0(local)
    ELSE ToLower(SRS1Host(local) \o SRS1Inner(local))

\* Reverse returns an address only for an envelope whose tag is, ignoring
\* letter case, the tag of its own secret over the fields it parsed
OwnTagOnly ==
    \A j \in Calls :
        (IsReverse(j) /\ Ok(j))
        => LET local == In(j).user
               g == parseSRS1(local)
               tag == IF IsSRS0(local) THEN parseSRS0(local).srsHash ELSE g.srs1Hash
               msg == IF IsSRS0(local) THEN EnvMsg0(local)
                      ELSE ToLower(g.srs1Host \o g.srsLocal)
           IN /\ IsSRS0(local) \/ IsSRS1(local)
              /\ Signed(j, msg)
              /\ EqualFold(tag, TagOf(j, msg))

\* C10 as stated: an envelope of Forward of an engine with secret A gets the
\* tag-invalid error from Reverse of an engine whose secret B gives the same
\* fields another tag, in the first and in the second form; and Reverse
\* returns an address only for an envelope that carries its own tag.
C10_OtherSecretRejected ==
    /\ \A i, j \in Calls :
          ( /\ CrossReverse(i, j)
            /\ Signed(j, EnvMsg(In(j).user))
                 => TagOf(j, EnvMsg(In(j).user)) # EnvTag(In(j).user) )
          => hist[j].err = ErrHashInvalid
    /\ OwnTagOnly

\* C10 amended: an envelope of Forward of an engine with secret A is turned
\* away by Reverse of an engine whose secret B gives the same fields a tag
\* that differs from A's by more than letter case; the error is tag-invalid
\* when the checks Reverse makes before it compares the tag pass (first
\* form: the timestamp is within maxAge days; second form: parseSRS1 finds
\* its fields); and Reverse returns an address only for an envelope that
\* carries, ignoring letter case, its own tag.
C10_OtherSecretFolded ==
    /\ \A i, j \in Calls :
          ( /\ CrossReverse(i, j)
            /\ Signed(j, EnvMsg(In(j).user))
                 => ~EqualFold(TagOf(j, EnvMsg(In(j).user)), EnvTag(In(j).user)) )
          => /\ ~Ok(j)
             /\ (IsSRS0(In(j).user) /\ DaysBetween(i, j) <= maxAge)
                => hist[j].err = ErrHashInvalid
             /\ (IsSRS1(In(j).user) /\ parseSRS1(In(j).user).err = NoErr)
                => hist[j].err = ErrHashInvalid
    /\ OwnTagOnly

\* the other relay computed another tag over a second-form envelope and
\* turned it away
C10_Witness ==
    \E i, j \in Calls :
        /\ CrossReverse(i, j) /\ IsSRS1(In(j).user)
        /\ Signed(j, EnvMsg(In(j).user))
        /\ ~EqualFold(TagOf(j, EnvMsg(In(j).user)), EnvTag(In(j).user))
        /\ hist[j].err = ErrHashInvalid

\* the same of a first-form envelope
C10_WitnessFirstForm ==
    \E i, j \in Calls :
        /\ CrossReverse(i, j) /\ IsSRS0(In(j).user)
        /\ Signed(j, EnvMsg(In(j).user))
        /\ ~EqualFold(TagOf(j, EnvMsg(In(j).user)), EnvTag(In(j).user))
        /\ hist[j].err = ErrHashInvalid

\* call j is Reverse, by the same engine and within maxAge days, of the
\* envelope Forward call i built from a foreign address whose host has no
\* '=', with the case of some of its letters changed (or of none)
RecasedReverse(i, j) ==
    /\ i < j /\ IsForward(i) /\ Ok(i) /\ IsReverse(j)
    /\ hist[j].relay = hist[i].relay
    /\ In(i).err = NoErr /\ In(i).domain # Cfg(i).Domain
    /\ ~ContainsRune(In(i).domain, "=")
    /\ ToLower(hist[j].email) = ToLower(hist[i].out)
    /\ DaysBetween(i, j) <= maxAge

\* C11: Reverse of a valid wrapped address in which letters have changed
\* their case (all lower, all upper, mixed) succeeds, and the address it
\* returns has host and user in the letter case of the input to Reverse.
C11_CaseInsensitive ==
    \A i, j \in Calls :
        RecasedReverse(i, j)
        => LET e == hist[j].email
               hostLen == Len(In(i).domain)
               hostLo1 == 5 + hashLength + TsLen(i) + 3
               userLo1 == hostLo1 + hostLen + 1
               userHi1 == userLo1 + Len(In(i).user) - 1
               hostLo2 == 5 + hashLength + 2
               innerLo2 == hostLo2 + hostLen + 1
               innerHi2 == innerLo2 + Len(In(i).user) - 5
           IN
           /\ Unwrapped(In(i).user)
              => ( /\ Ok(j)
                   /\ hist[j].out =
                        SubSeq(e, userLo1, userHi1) \o << "@" >>
                          \o SubSeq(e, hostLo1, hostLo1 + hostLen - 1) )
           /\ ( /\ IsSRS0(In(i).user)
                /\ DoubleSepAt(parseEmail(hist[i].out).user)
                     = 5 + hashLength + 1 + hostLen )
              => ( /\ Ok(j)
                   /\ hist[j].out =
                        SRS0 \o SubSeq(e, innerLo2, innerHi2) \o << "@" >>
                          \o SubSeq(e, hostLo2, hostLo2 + hostLen - 1) )

\* Reverse accepted a first-form address put in lower case throughout and
\* returned user and host in lower case, not in the case Forward was given
C11_Witness ==
    \E i, j \in Calls :
        /\ RecasedReverse(i, j) /\ Unwrapped(In(i).user)
        /\ hist[j].email = ToLower(hist[i].out)
        /\ hist[j].email # hist[i].out
        /\ Ok(j)
        /\ hist[j].out = ToLower(hist[i].email)
        /\ hist[j].out # hist[i].email

\* the same of a second-form address put in upper case throughout
C11_WitnessSecondForm ==
    \E i, j \in Calls :
        /\ RecasedReverse(i, j) /\ IsSRS0(In(i).user)
        /\ hist[j].email = ToUpper(hist[i].out)
        /\ hist[j].email # hist[i].out
        /\ Ok(j)
        /\ hist[j].out # hist[i].email

\* the local-part starts, in any letter case, with SRS0 or SRS1 followed by
\* '=', '+' or '-'
StartsWrapped(local) ==
    /\ Len(local) >= 5
    /\ ToUpper(SubSeq(local, 1, 4)) \in { SRS0, SRS1 }
    /\ local[5] \in { "=", "+", "-" }

\* C12: Reverse fails with the not-an-SRS-address error and returns no
\* address for every input the address splitter rejects and for every
\* address whose local-part does not start with SRS0 or SRS1 (in any letter
\* case) followed by '=', '+' or '-'.
C12_NotAnSRSAddress ==
    \A j \in Calls :
        (IsReverse(j) /\ (In(j).err # NoErr \/ ~StartsWrapped(In(j).user)))
        => (hist[j].err = ErrNoSRS /\ hist[j].out = << >>)

\* Reverse turned away an address whose local-part has another character
\* behind SRS0
C12_Witness ==
    \E j \in Calls :
        /\ IsReverse(j) /\ In(j).err = NoErr
        /\ Len(In(j).user) >= 5 /\ UpTo(In(j).user, 4) = SRS0
        /\ ~StartsWrapped(In(j).user)
        /\ hist[j].err = ErrNoSRS

\* Reverse turned away a string the address splitter rejects, although it
\* starts like an envelope
C12_WitnessNoAddress ==
    \E j \in Calls :
        /\ IsReverse(j) /\ In(j).err # NoErr
        /\ StartsWrapped(hist[j].email)
        /\ hist[j].err = ErrNoSRS

\* the string Forward call i handed to the address splitter
Handed(i) ==
    IF HasSuffix(hist[i].email, "@")
    THEN hist[i].email \o Cfg(i).Domain ELSE hist[i].email

C13_WitnessEmpty ==
    \E i \in Calls :
        /\ IsForward(i) /\ hist[i].email = << >>
        /\ hist[i].err = ErrNoAtSign /\ hist[i].out = << >>

Config(s) ==
    [Secret |-> s.Secret, Domain |-> s.Domain,
     FirstSeparator |-> s.FirstSeparator, NowFunc |-> s.NowFunc]

\* C15: under every interleaving of concurrent Forward and Reverse callers
\* setDefaults runs at most once per engine; it has finished before any
\* caller goes on to read the first separator or the clock; and once it has
\* finished no call writes the configuration again.
C15_DefaultsOnce ==
    /\ run.inits <= 1
    /\ \A g \in Goroutines :
          run.pc[g] = "body"
          => /\ srs["r1"].once
             /\ \A h \in Goroutines : run.pc[h] \notin { "fs", "now", "store" }
             /\ srs["r1"].FirstSeparator \in { << "=" >>, << "+" >>, << "-" >> }
             /\ srs["r1"].NowFunc # "nil"
    /\ \A i \in 1..Len(run.writes) :
          /\ ~run.writes[i].done
          /\ run.writes[i].g = run.writes[1].g
    /\ srs["r1"].once
          => \E c \in { run.cfg0 } :
               Config(srs["r1"]) =
                 [Config(c) EXCEPT
                    !.FirstSeparator =
                        IF @ \in { << "=" >>, << "+" >>, << "-" >> } THEN @ ELSE << "=" >>,
                    !.NowFunc = IF @ = "nil" THEN "time.Now" ELSE @]
    /\ ~srs["r1"].once /\ run.inits = 0 => Config(srs["r1"]) = Config(run.cfg0)

\* two goroutines were inside once.Do together; the one that ran
\* setDefaults has finished a call and the other, still waiting for the
\* mutex, has not yet seen that the work is done
C15_Witness ==
    /\ Len(hist) >= 1
    /\ run.inits = 1
    /\ Len(run.writes) = 2
    /\ \E g, h \in Goroutines :
          /\ run.pc[g] = "body" /\ run.writes[1].g = g
          /\ run.pc[h] = "lock"

\* C16: once the defaults are resolved the first separator is '=', '+' or
\* '-': a configured '=', '+' or '-' is kept and anything else (empty, more
\* than one character, another character) has become '='; a nil clock has
\* become the wall clock and a configured clock is kept.
C16_DefaultsResolved ==
    srs["r1"].once
    => LET before == run.cfg0
           after == srs["r1"]
       IN /\ after.FirstSeparator \in { << "=" >>, << "+" >>, << "-" >> }
          /\ before.FirstSeparator \in { << "=" >>, << "+" >>, << "-" >> }
             => after.FirstSeparator = before.FirstSeparator
          /\ before.FirstSeparator \notin { << "=" >>, << "+" >>, << "-" >> }
             => after.FirstSeparator = << "=" >>
          /\ before.NowFunc = "nil" => after.NowFunc = "time.Now"
          /\ before.NowFunc # "nil" => after.NowFunc = before.NowFunc
          /\ after.Secret = before.Secret /\ after.Domain = before.Domain

\* a first separator of two characters was replaced by '=' and the
\* configured clock kept, and Forward then wrapped an address with '='
C16_Witness ==
    /\ srs["r1"].once
    /\ Len(run.cfg0.FirstSeparator) = 2
    /\ srs["r1"].FirstSeparator = << "=" >>
    /\ run.cfg0.NowFunc = "custom" /\ srs["r1"].NowFunc = "custom"
    /\ \E i \in Calls : IsForward(i) /\ Ok(i) /\ hist[i].out[5] = "="

\* a configured '-' was kept and the nil clock replaced by the wall clock
C16_WitnessKept ==
    /\ srs["r1"].once
    /\ run.cfg0.FirstSeparator = << "-" >> /\ srs["r1"].FirstSeparator = << "-" >>
    /\ run.cfg0.NowFunc = "nil" /\ srs["r1"].NowFunc = "time.Now"

IsStamp(i) == hist[i].op = "timestamp"
IsCheck(i) == hist[i].op = "checkTimestamp"

\* C17: for every instant of the clock, before the epoch too, the slot that
\* Forward and the freshness check compute is floor(unixSeconds / 86400)
\* mod 1024, a number of 0..1023.
C17_SlotFloorMod ==
    \A i \in Calls :
        (IsStamp(i) \/ IsCheck(i))
        => /\ hist[i].slot = (hist[i].now \div timePrecision) % timeSlots
           /\ hist[i].slot \in 0..(timeSlots - 1)

\* C17 holds of the instants from the epoch on
C17_SlotFromEpoch ==
    \A i \in Calls :
        ((IsStamp(i) \/ IsCheck(i)) /\ hist[i].now >= 0)
        => /\ hist[i].slot = (hist[i].now \div timePrecision) % timeSlots
           /\ hist[i].slot \in 0..(timeSlots - 1)

\* C18: with the slot of the envelope and the current slot both in 0..1023,
\* checkTimestamp succeeds if and only if (nowSlot - thenSlot) mod 1024 is
\* at most maxAge, and fails with the out-of-date error otherwise; so a
\* time stamp k days ahead of the current slot fails, 1 <= k < 1024 - maxAge.
C18_CyclicDistance ==
    \A i \in Calls :
        ( /\ IsCheck(i) /\ ~hist[i].bad
          /\ hist[i].then \in 0..(timeSlots - 1)
          /\ hist[i].slot \in 0..(timeSlots - 1) )
        => /\ (hist[i].err = NoErr)
                <=> ((hist[i].slot - hist[i].then) % timeSlots <= maxAge)
           /\ hist[i].err \in { NoErr, ErrTimestampWrongSlot }
           /\ \A k \in 1..(timeSlots - maxAge - 1) :
                 hist[i].then = (hist[i].slot + k) % timeSlots
                 => hist[i].err = ErrTimestampWrongSlot

\* a time stamp from before the wrap of the cycle was accepted at a current
\* slot below maxAge
C18_Witness ==
    \E i \in Calls :
        /\ IsCheck(i) /\ ~hist[i].bad
        /\ hist[i].slot \in 1..(maxAge - 1)
        /\ hist[i].then > timeSlots - maxAge /\ hist[i].then < timeSlots
        /\ hist[i].err = NoErr

\* a time stamp one day ahead of the current slot was turned away
C18_WitnessAhead ==
    \E i \in Calls :
        /\ IsCheck(i) /\ ~hist[i].bad
        /\ hist[i].slot \in 0..(timeSlots - 1)
        /\ hist[i].then = hist[i].slot + 1
        /\ hist[i].err = ErrTimestampWrongSlot

\* the digit a character of the alphabet stands for, in either letter case
DigitOf(c) ==
    CHOOSE d \in 0..(baseSize - 1) : base32[d + 1] = c \/ ToLowerRune(base32[d + 1]) = c
InAlphabet(c) ==
    \E d \in 0..(baseSize - 1) : base32[d + 1] = c \/ ToLowerRune(base32[d + 1]) = c
\* the number a string of at most two digits denotes, first digit first
ValueOf(e) ==
    IF Len(e) = 0 THEN 0
    ELSE IF Len(e) = 1 THEN DigitOf(e[1])
    ELSE DigitOf(e[1]) * baseSize + DigitOf(e[2])

C19_WitnessBad ==
    \E i \in Calls :
        /\ IsCheck(i) /\ Len(hist[i].email) = 2
        /\ InAlphabet(hist[i].email[1]) /\ ~InAlphabet(hist[i].email[2])
        /\ hist[i].err = ErrTimestampInvalidBase32

\* C20: for every time-stamp string of alphabet characters, of any length,
\* that gets to the comparison, the loop of checkTimestamp adds 1024 to the
\* current slot at most once.
C20_SingleLap ==
    \A i \in Calls :
        (IsCheck(i) /\ ~hist[i].bad) => hist[i].laps <= 1

\* C20 holds of the strings of at most two characters, from the epoch on
C20_SingleLapTwoChars ==
    \A i \in Calls :
        (IsCheck(i) /\ ~hist[i].bad /\ Len(hist[i].email) <= 2 /\ hist[i].now >= 0)
        => hist[i].laps <= 1

\* the loop ran more than once, on a string of three characters
C20_ManyLaps ==
    \E i \in Calls :
        /\ IsCheck(i) /\ ~hist[i].bad /\ hist[i].laps > 1
        /\ Len(hist[i].email) = 3 /\ hist[i].now >= 0

\* C21: checkTimestamp returns, with nil or the out-of-date error, for
\* every time stamp of alphabet characters of any length, also when then
\* wraps around the width of int or comes within 1024 of the largest int.
C21_Terminates ==
    (\A q \in 1..Len(cur) : InAlphabet(cur[q]))
    => <>(run.pc = "return" /\ run.err \in { NoErr, ErrTimestampWrongSlot })

\* C21 holds of the time stamps of at most two characters
C21_TerminatesTwoChars ==
    (Len(cur) <= 2 /\ \A q \in 1..Len(cur) : InAlphabet(cur[q]))
    => <>(run.pc = "return" /\ run.err \in { NoErr, ErrTimestampWrongSlot })

\* the add-1024 loop has wrapped now around below then, which is within
\* 1024 of the largest int
C21_Wrapped ==
    /\ run.pc = "loop"
    /\ run.now < 0
    /\ run.then > 2 ^ (IntBits - 1) - 1 - timeSlots

----------------------------------------------------------------------------
(* Envelopes as Reverse reads them.                                        *)

FirstFormCall(j) ==
    /\ IsReverse(j) /\ In(j).err = NoErr
    /\ StartsWrapped(In(j).user) /\ ToUpper(SubSeq(In(j).user, 1, 4)) = SRS0
SecondFormCall(j) ==
    /\ IsReverse(j) /\ In(j).err = NoErr
    /\ StartsWrapped(In(j).user) /\ ToUpper(SubSeq(In(j).user, 1, 4)) = SRS1
\* the '='-separated fields after the 5-character prefix, four at most
Fields0(local) == SplitN(SubSeq(local, 6, Len(local)), "=", 4)
NowSlot(j) == (hist[j].now \div timePrecision) % timeSlots
\* a time stamp of at most two digits is out of date at call j
Stale(j, ts) == (NowSlot(j) - ValueOf(ts)) % timeSlots > maxAge
NoDigest(tag) == \A d \in Digests : ~EqualFold(tag, SubSeq(d, 1, hashLength))

C22_WitnessStale ==
    \E j \in Calls :
        /\ FirstFormCall(j)
        /\ Len(Fields0(In(j).user)) = 4
        /\ NoDigest(Fields0(In(j).user)[1])
        /\ hist[j].err = ErrTimestampWrongSlot
\* a fresh time stamp under such a tag: the tag-invalid error
C22_WitnessTag ==
    \E j \in Calls :
        /\ FirstFormCall(j)
        /\ NoDigest(Fields0(In(j).user)[1])
        /\ hist[j].err = ErrHashInvalid
\* an envelope written by hand that passes all three checks
C22_WitnessPass ==
    \E j \in Calls :
        FirstFormCall(j) /\ hist[j].email \in OwnEnvelopes /\ Ok(j)

\* local[k], local[k+1] is one of "==", "=+", "=-"
TokenAt(local, k) ==
    k < Len(local) /\ local[k] = "=" /\ local[k + 1] \in { "=", "+", "-" }
\* the position (from 1) of the leftmost token of local, 0 for none
FirstToken(local) ==
    IF \E k \in 1..Len(local) : TokenAt(local, k)
    THEN CHOOSE k \in 1..Len(local) :
             TokenAt(local, k) /\ \A q \in 1..(k - 1) : ~TokenAt(local, q)
    ELSE 0
\* the text between the 5-character prefix and the leftmost token
TextBefore(local) == SubSeq(local, 6, FirstToken(local) - 1)
OuterTag(local) ==
    LET t == TextBefore(local) e == IndexRune(t, "=") IN
    IF e = 0 THEN << >> ELSE SubSeq(t, 1, e - 1)
OuterHost(local) ==
    LET t == TextBefore(local) e == IndexRune(t, "=") IN
    IF e = 0 THEN << >> ELSE SubSeq(t, e + 1, Len(t))
\* the token's second character and everything after the token
InnerPart(local) == SubSeq(local, FirstToken(local) + 1, Len(local))
OuterMsg(local) == ToLower(OuterHost(local) \o InnerPart(local))

\* C23: Reverse splits a second-form local-part at the leftmost of the
\* tokens "==", "=+", "=-", looked for from the first character on: the text
\* between the prefix and the token is split at its first '=' into tag and
\* host, the inner part is the token's second character and all that
\* follows it, byte for byte; a local-part with no token is the
\* missing-field error.
C23_LeftmostToken ==
    \A j \in Calls :
        SecondFormCall(j)
        => LET local == In(j).user IN
           /\ FirstToken(local) = 0 => hist[j].err = ErrNoUserInSRS1
           /\ FirstToken(local) > 0
              => /\ hist[j].err \in { NoErr, ErrHashInvalid, ErrHashTooShort }
                 /\ hist[j].err \in { NoErr, ErrHashInvalid }
                    => Signed(j, OuterMsg(local))
                 /\ Ok(j)
                    => /\ EqualFold(OuterTag(local), TagOf(j, OuterMsg(local)))
                       /\ hist[j].out = SRS0 \o InnerPart(local) \o << "@" >>
                                          \o OuterHost(local)

\* Reverse gave back the inner part of a local-part with two tokens
C23_Witness ==
    \E j \in Calls :
        /\ SecondFormCall(j) /\ Ok(j)
        /\ \E k \in 1..Len(In(j).user) :
              k > FirstToken(In(j).user) + 1 /\ TokenAt(In(j).user, k)
\* a second-form local-part without a token
C23_WitnessNone ==
    \E j \in Calls :
        /\ SecondFormCall(j) /\ FirstToken(In(j).user) = 0
        /\ Len(In(j).user) > 8
        /\ hist[j].err = ErrNoUserInSRS1

\* C24 as stated: Reverse fails with the tag-too-short error whenever the
\* tag portion of a second-form local-part, the text between the prefix and
\* the first '=' before the double separator, has at most 8 characters.
C24_TagFloor ==
    \A j \in Calls :
        (SecondFormCall(j) /\ FirstToken(In(j).user) > 0)
        => LET t == TextBefore(In(j).user)
               tag == IF IndexRune(t, "=") = 0 THEN t
                      ELSE SubSeq(t, 1, IndexRune(t, "=") - 1)
           IN Len(tag) <= 8 => hist[j].err = ErrHashTooShort

\* C24: Reverse fails with the tag-too-short error exactly when the text
\* before the double separator, counted from the first character of the
\* local-part, has at most 8 characters; the check comes after the double
\* separator has been found and before the tag is compared.
C24_PrefixedFloor ==
    \A j \in Calls :
        SecondFormCall(j)
        => LET k == FirstToken(In(j).user) IN
           /\ (k > 0 /\ k - 1 <= 8) <=> hist[j].err = ErrHashTooShort
           /\ (hist[j].err = ErrHashTooShort /\ Len(hist) = 1)
              => DOMAIN hmac = { }

\* eight characters before the double separator: too short
C24_Witness ==
    \E j \in Calls :
        /\ SecondFormCall(j)
        /\ FirstToken(In(j).user) = 9
        /\ hist[j].err = ErrHashTooShort
\* nine characters before it, with a tag of four: Reverse returns the address
C24_WitnessPassed ==
    \E j \in Calls :
        /\ SecondFormCall(j)
        /\ Len(OuterTag(In(j).user)) = hashLength
        /\ Ok(j)

\* the third '='-separated field after the prefix starts with '=', '+', '-'
HasDoubleSep(local) ==
    LET f == SplitN(SubSeq(local, 6, Len(local)), "=", 3) IN
    Len(f) = 3 /\ Len(f[3]) > 0 /\ f[3][1] \in { "=", "+", "-" }
ForeignSecondForm(i) ==
    /\ IsForward(i) /\ In(i).err = NoErr
    /\ StartsWrapped(In(i).user) /\ ToUpper(SubSeq(In(i).user, 1, 4)) = SRS1
    /\ In(i).domain # Cfg(i).Domain

\* C25: Forward on a foreign SRS1 address with no double separator after tag
\* and host fails and emits no address; when it succeeds the emitted
\* local-part has a double separator directly after the host field.
C25_SecondFormGrammar ==
    \A i \in Calls :
        ForeignSecondForm(i)
        => /\ ~HasDoubleSep(In(i).user) => (~Ok(i) /\ hist[i].out = << >>)
           /\ Ok(i) => HasDoubleSep(parseEmail(hist[i].out).user)

\* C25 holds of the addresses with a double separator, and Forward fails on
\* those with fewer than three '='-separated fields after the prefix
C25_ThreeFields ==
    \A i \in Calls :
        ForeignSecondForm(i)
        => LET f == SplitN(SubSeq(In(i).user, 6, Len(In(i).user)), "=", 3) IN
           /\ Ok(i) <=> Len(f) = 3
           /\ ~Ok(i) => (hist[i].err = ErrNoSRS /\ hist[i].out = << >>)
           /\ (Ok(i) /\ HasDoubleSep(In(i).user))
              => HasDoubleSep(parseEmail(hist[i].out).user)

\* Forward re-signed an SRS1 address that has no double separator
C25_Reached ==
    \E i \in Calls :
        ForeignSecondForm(i) /\ ~HasDoubleSep(In(i).user) /\ Ok(i)

ProbeClocks == { 60, 1577836860, 1577836860 + (maxAge + 1) * timePrecision }

\* C26: Reverse on a second-form address verifies the outer tag over host
\* and inner part and nothing else: it gives the same at every clock value,
\* whatever the inner part holds; Forward on a foreign SRS0 or SRS1 address
\* gives the same at every clock value.
C26_ClockFree ==
    /\ LET s == onceDo(srs["r1"])
           p == parseEmail(cur)
       IN
       /\ (p.err = NoErr /\ StartsWrapped(p.user)
             /\ ToUpper(SubSeq(p.user, 1, 4)) = SRS1)
          => \A t \in ProbeClocks :
                Reverse(s, hmac, t, cur) = Reverse(s, hmac, clock, cur)
       /\ (p.err = NoErr /\ StartsWrapped(p.user) /\ p.domain # s.Domain)
          => \A t \in ProbeClocks :
                Forward(s, hmac, t, cur) = Forward(s, hmac, clock, cur)
    /\ \A j \in Calls :
          (SecondFormCall(j) /\ FirstToken(In(j).user) > 9)
          => (Ok(j) <=> EqualFold(OuterTag(In(j).user),
                                  TagOf(j, OuterMsg(In(j).user))))

\* Reverse accepted a second-form envelope whose inner part carries a time
\* stamp outside the alphabet and a tag no digest matches
C26_Witness ==
    \E j \in Calls :
        /\ SecondFormCall(j) /\ Ok(j)
        /\ LET f == Fields0(parseEmail(hist[j].out).user) IN
           /\ Len(f) = 4
           /\ NoDigest(f[1])
           /\ \E q \in 1..Len(f[2]) : ~InAlphabet(f[2][q])
\* Reverse accepted, 22 days later, the envelope Forward made of a foreign
\* first-form address
C26_WitnessLater ==
    \E i, j \in Calls :
        /\ i < j
        /\ IsForward(i) /\ Ok(i) /\ IsSRS0(In(i).user)
        /\ SecondFormCall(j) /\ Ok(j) /\ hist[j].email = hist[i].out
        /\ hist[j].now - hist[i].now > maxAge * timePrecision
\* Reverse accepted a second-form envelope whose inner part has one field
C26_WitnessOneField ==
    \E j \in Calls :
        /\ SecondFormCall(j) /\ Ok(j)
        /\ Len(Fields0(parseEmail(hist[j].out).user)) = 1

\* C29: Forward and Reverse return for every input: the call of
\* checkTimestamp that Reverse makes on the time stamp field comes back.
C29_Returns == <>(run.pc = "return")

\* C29 holds of the result and of the slices: Forward and Reverse give
\* either an address that is not empty with no error or the empty string
\* with an error, and every slice they take is within bounds.
C29_Total ==
    /\ Forward(onceDo(srs["r1"]), hmac, clock, cur) # { }
    /\ Reverse(onceDo(srs["r1"]), hmac, clock, cur) # { }
    /\ \A k \in DOMAIN hmac : Len(hmac[k]) >= hashLength
    /\ \A j \in Calls :
          /\ \/ Ok(j) /\ hist[j].out # << >>
             \/ ~Ok(j) /\ hist[j].out = << >>
          /\ (IsReverse(j) /\ In(j).err = NoErr /\ IsSRS1(In(j).user)
                /\ parseSRS1(In(j).user).err = NoErr)
             => DoubleSepAt(In(j).user) >= 5

\* Reverse returned "@" for a first-form envelope with empty time stamp,
\* host and user
C29_Witness ==
    \E j \in Calls :
        /\ FirstFormCall(j) /\ Ok(j)
        /\ hist[j].out = << "@" >>
\* the double separator directly after the prefix
C29_WitnessDoubleSep ==
    \E j \in Calls :
        SecondFormCall(j) /\ FirstToken(In(j).user) = 5 /\ ~Ok(j)
\* the double separator at the very end
C29_WitnessAtEnd ==
    \E j \in Calls :
        /\ SecondFormCall(j) /\ Ok(j)
        /\ FirstToken(In(j).user) = Len(In(j).user) - 1
\* a local-part that is the prefix and nothing else
C29_WitnessPrefixOnly ==
    \E j \in Calls :
        /\ In(j).err = NoErr
        /\ StartsWrapped(In(j).user) /\ Len(In(j).user) = 5

\* calls 1..k are the hops of one address through relays of pairwise
\* distinct domains, from an unwrapped address on
Chain(k) ==
    /\ k \in Calls
    /\ \A i \in 1..k : IsForward(i) /\ Ok(i)
    /\ \A i \in 2..k : hist[i].email = hist[i - 1].out
    /\ In(1).err = NoErr => Unwrapped(In(1).user)
    /\ \A i, j \in 1..k : i # j => Cfg(i).Domain # Cfg(j).Domain
\* the number of '='-separated fields after the 5-character prefix
FieldCount(local) == Cardinality({ q \in 6..Len(local) : local[q] = "=" }) + 1

CollisionFree ==
    \A k1, k2 \in DOMAIN hmac :
        k1 # k2 => ~EqualFold(SubSeq(hmac[k1], 1, hashLength),
                              SubSeq(hmac[k2], 1, hashLength))
\* call j is Reverse, by the same relay, on an address other than the one
\* Forward returned at call i
ReverseOfOther(i, j) ==
    /\ i < j
    /\ IsForward(i) /\ Ok(i) /\ hist[i].out # hist[i].email
    /\ IsReverse(j) /\ hist[j].relay = hist[i].relay
    /\ In(j).err = NoErr
    /\ ToLower(hist[j].email) # ToLower(hist[i].out)

\* C28: the bytes the tag covers determine the parsed fields: envelopes
\* whose fields differ after lower-casing never have the same tag input, so
\* an envelope with characters moved across a field boundary is turned away
\* by Reverse, which never returns another user@host or another
\* SRS0...@host than the one that was signed.
C28_FieldsAuthenticated ==
    CollisionFree
    => \A i, j \in Calls :
          ReverseOfOther(i, j)
          => LET a == parseEmail(hist[i].out).user
                 b == In(j).user
                 fa == Fields0(a)
                 fb == Fields0(b)
             IN /\ (FirstFormCall(j) /\ IsSRS0(a)
                      /\ Len(fa) = 4 /\ Len(fb) = 4
                      /\ << ToLower(fa[2]), ToLower(fa[3]), ToLower(fa[4]) >>
                           # << ToLower(fb[2]), ToLower(fb[3]), ToLower(fb[4]) >>)
                   => EnvMsg0(a) # EnvMsg0(b)
                /\ (SecondFormCall(j) /\ IsSRS1(a)
                      /\ FirstToken(a) > 0 /\ FirstToken(b) > 0
                      /\ << ToLower(OuterHost(a)), ToLower(InnerPart(a)) >>
                           # << ToLower(OuterHost(b)), ToLower(InnerPart(b)) >>)
                   => OuterMsg(a) # OuterMsg(b)
                /\ Ok(j) => ToLower(hist[j].out) = ToLower(hist[i].email)

\* Reverse accepted an envelope whose '=' between host and user had been
\* moved, on the tag it had signed, and returned another address
C28_Reached ==
    \E i, j \in Calls :
        /\ ReverseOfOther(i, j)
        /\ Ok(j)
        /\ Cardinality(DOMAIN hmac) = 1
        /\ ToLower(hist[j].out) # ToLower(hist[i].email)

\* the same for a second-form envelope: the double separator was moved into
\* the host
C28_ReachedSecondForm ==
    \E i, j \in Calls :
        /\ ReverseOfOther(i, j)
        /\ SecondFormCall(j) /\ Ok(j)
        /\ Cardinality(DOMAIN hmac) = 1
        /\ parseEmail(hist[j].out).domain # In(i).domain

\* C28 holds of the bytes: Reverse accepts an envelope only on the tag of
\* its own secret over the concatenation of the fields it parsed
C28_BytesAuthenticated ==
    \A j \in Calls :
        /\ (FirstFormCall(j) /\ Ok(j))
           => LET f == Fields0(In(j).user) IN
              EqualFold(f[1], TagOf(j, ToLower(f[2] \o f[3] \o f[4])))
        /\ (SecondFormCall(j) /\ Ok(j))
           => EqualFold(OuterTag(In(j).user), TagOf(j, OuterMsg(In(j).user)))

====
